---- MODULE Spec2Model ----
(***************************************************************************)
(* Heracles map-making and two-point pipeline.                             *)
(*                                                                         *)
(* SpecSched : the two catalogue schedulers, maps.map_catalogs (generator  *)
(*             driven) and fields.map_catalogs (coroutine driven).         *)
(***************************************************************************)
EXTENDS Integers, Sequences, FiniteSets, TLC

VARIABLES
    \* ---- scheduler (map_catalogs) ----
    impl,       \* "maps" (maps.py) or "fields" (fields.py)
    parallel,   \* the parallel= argument
    cat,        \* catalog id -> [size, page_size, avail]; avail = pages its iterator yields
                \* (a stream may end early, it never yields rows beyond its size)
    kind,       \* field id -> "paged" (page-driven aggregation) or "direct" (visibility copy)
    include,    \* the include= filter
    exclude,    \* the exclude= filter
    gidx,       \* index of the group being processed
    pc,         \* position of map_catalogs
    invoked,    \* keys whose field was called on its catalog
    results,    \* the local results dict of the current group
    active,     \* keys of the current group with a generator / coroutine
    consumed,   \* key -> number of pages its aggregation has processed
    co,         \* key -> position of its generator / coroutine
    drawn,      \* catalog -> pages drawn from the driver's iterator (maps.py)
    page,       \* index of the page in the driver loop (rownum / page_size)
    ci,         \* position in the group's catalog order (maps.py driver loop)
    fi,         \* position in the maps order (maps.py), or gather's turn (fields.py)
    queue,      \* keys still to finalize / to store, in order
    out,        \* the output TOC mapping
    writes,     \* key -> number of times out[key] was assigned in this call
    err,        \* exception raised to the caller, or "none"
    tally,      \* what happened so far in the call: [iters, fed, finals, sleeps]
                \* iters: catalog -> iterators created by the driver (maps.py)
                \* fed: key -> the pages its generator received, by number (maps.py)
                \* finals: key -> resumptions of its generator to finalize (maps.py)
                \* sleeps: key -> suspensions of its coroutine (fields.py)
    \* ---- one scalar / complex field aggregation (ScalarField, ComplexField) ----
    fcfg,       \* the field: [complex, wcol]
    fpc,        \* "paging" (in the page loop), "done" (map returned)
    fpages,     \* pages processed so far
    frows,      \* catalogue rows read so far
    acc,        \* the coroutine's locals: [wht, val, ngal, wmean, var]
    pg,         \* the current page after deletion: its size and sums
    cacc,       \* the same aggregation run over the catalogue without its zero-weight rows
    cpg,        \* its current page
    ref,        \* plain sums over the rows given to the kernel, per cell and in total
    fres,       \* the returned map with its metadata, or NoResult
    cres,       \* the map returned for the catalogue without its zero-weight rows
    macc,       \* [ngal, wmean, var] of the mapper of maps.py fed the same pages
    \* ---- one position field (fields.py Positions, maps.py PositionMap) ----
    pcfg,       \* the field and its catalogue: [impl, overdensity, randomize, nbar, vis]
    ppc,        \* "paging" (in the page loop), "done" (map returned), "failed"
    ppages,     \* pages processed so far
    pos,        \* the local pos: counts per cell
    pngal,      \* the local ngal
    praw,       \* rows of the catalogue per cell, over all pages so far
    pread,      \* whether the position columns of any page were read
    pwarn,      \* whether the mean-density warning was issued
    pcounts,    \* pos as it stands before the overdensity step, once finished
    pres,       \* the returned map with its metadata, or PosNoResult
    perr,       \* exception raised to the caller, or "none"
    \* ---- fields to finished maps to coefficients (Field classes, transform_maps) ----
    mcfg,       \* the fields by key, and the catalogue: [fields, vis, normalize]
    mpc,        \* "mapping", "transform", "done" or "failed"
    mi,         \* position in the order of the keys
    mmaps,      \* key -> metadata of the finished map
    alms,       \* key -> metadata of the coefficients (the out of transform_maps)
    merr,       \* exception raised to the caller, or "none"
    \* ---- one call of alm2cl (twopoint.py) ----
    cin,        \* the arguments of alm2cl: [lmax1, seed1, lmax2, seed2, lmax], lmax = -1 for None
    cpc,        \* "loop" (in the loop over m), "done" (cl returned), "failed"
    cm,         \* the loop variable m
    cstart,     \* the locals <<start1, start2>>
    ccl,        \* the local cl, mode l at position l + 1
    cerr,       \* exception raised to the caller, or "none"
    \* ---- one call of angular_power_spectra (twopoint.py) ----
    ain,        \* the arguments of angular_power_spectra: [order, given2, include, exclude, debias, biased]
    apc,        \* "pairs" (in the loop over the pairs) or "done"
    ai,         \* position in the sequence of pairs
    acls,       \* the local cls: key -> [md, debiased]
    anames,     \* the local twopoint_names
    \* ---- one call of debias_cls on one spectrum (twopoint.py) ----
    din,        \* the call of debias_cls on one spectrum: [len, md, arg, inplace]
    dpc,        \* "call", "return", "done" or "failed"
    dcl,        \* the spectrum in cls, mode l at position l + 1
    dout,       \* the spectrum in the mapping returned, or <<>>
    derr,       \* exception raised to the caller, or "none"
    dheap,      \* the objects: [arrays, cls, outmap, out]; arrays: id -> [val, md],
                \* cls: id of the array under the key in the input mapping, outmap:
                \* the mapping out ("cls", "TocDict"), out: id of the array under
                \* the key in out, 0 for none
    \* ---- one call of bin2pt (twopoint.py) ----
    bin_in,     \* the arguments of bin2pt: [n, seed, multi, bins, weights]
    bpc,        \* "call", "bin" (w is set), "done" (binned returned) or "failed"
    bw,         \* the local w, mode l at position l + 1
    binned,     \* the local binned, one record [L, X, LMIN, LMAX, W] per bin
    berr,       \* exception raised to the caller, or "none"
    \* ---- one call of mixing_matrices (twopoint.py) ----
    xin,        \* the arguments of mixing_matrices: [fields, cls]
    xpc,        \* "loop" (in the loop over cls) or "done" (out returned)
    xi,         \* position in the items of cls
    xdone,      \* the local done
    xout,       \* the mapping out: key -> [call, part]
    xcalls,     \* the calls of mixmat and mixmat_eb so far, in order
    \* ---- CatalogPage objects (catalog/base.py) and the page feed of maps.map_catalogs ----
    harr,       \* the arrays: id -> rows (an array is never written)
    htab,       \* the column tables _data: id -> (column -> array id)
    hobj,       \* the CatalogPage objects: id -> [data, size] (data: a table id)
    hheld,      \* actor -> id of the page it works on, 0 for none
    herr,       \* exception raised by the last operation, or "none"
    hop,        \* the last operation: [op, actor, arg]
    \* ---- one iteration of a FitsCatalog or of a view of it (catalog/fits.py) ----
    tin,        \* the catalogue and the selection: [nrows, page_size, given, selected]
    tpc,        \* "iter" (in the loop of _pages) or "done" (iterator exhausted)
    tstart,     \* the local start
    tpages,     \* the pages yielded so far, each the row numbers of its rows
    tcache,     \* the row cache _rowinfo: <<start, stop>>, or <<>> for none
    \* ---- the flattened keys of a coefficient collection (_almkeys, _getalm in twopoint.py) ----
    kin,        \* the coefficient collection alms: a set of entries [name, bin, dims, spin]
    kpc,        \* "keys" (looking up the flattened keys in turn) or "done"
    kqueue,     \* the flattened keys still to look up, each with the component it came from
    klook       \* the lookups made: [key, from, got]

schedVars == <<impl, parallel, cat, kind, include, exclude, gidx, pc, invoked,
               results, active, consumed, co, drawn, page, ci, fi, queue, out,
               writes, err, tally>>

fieldVars == <<fcfg, fpc, fpages, frows, acc, pg, cacc, cpg, ref, fres, cres, macc>>

posVars == <<pcfg, ppc, ppages, pos, pngal, praw, pread, pwarn, pcounts, pres, perr>>

mapsVars == <<mcfg, mpc, mi, mmaps, alms, merr>>

clVars == <<cin, cpc, cm, cstart, ccl, cerr>>

apsVars == <<ain, apc, ai, acls, anames>>

debiasVars == <<din, dpc, dcl, dout, derr, dheap>>

binVars == <<bin_in, bpc, bw, binned, berr>>

mixVars == <<xin, xpc, xi, xdone, xout, xcalls>>

heapVars == <<harr, htab, hobj, hheld, herr, hop>>

fitsVars == <<tin, tpc, tstart, tpages, tcache>>

keyVars == <<kin, kpc, kqueue, klook>>

vars == <<schedVars, fieldVars, posVars, mapsVars, clVars, apsVars, debiasVars, binVars, mixVars, heapVars, fitsVars, keyVars>>

nonSchedVars == <<fieldVars, posVars, mapsVars, clVars, apsVars, debiasVars, binVars, mixVars, heapVars, fitsVars, keyVars>>
nonFieldVars == <<schedVars, posVars, mapsVars, clVars, apsVars, debiasVars, binVars, mixVars, heapVars, fitsVars, keyVars>>
nonPosVars == <<schedVars, fieldVars, mapsVars, clVars, apsVars, debiasVars, binVars, mixVars, heapVars, fitsVars, keyVars>>
nonMapsVars == <<schedVars, fieldVars, posVars, clVars, apsVars, debiasVars, binVars, mixVars, heapVars, fitsVars, keyVars>>
nonClVars == <<schedVars, fieldVars, posVars, mapsVars, apsVars, debiasVars, binVars, mixVars, heapVars, fitsVars, keyVars>>
nonApsVars == <<schedVars, fieldVars, posVars, mapsVars, clVars, debiasVars, binVars, mixVars, heapVars, fitsVars, keyVars>>
nonDebiasVars == <<schedVars, fieldVars, posVars, mapsVars, clVars, apsVars, binVars, mixVars, heapVars, fitsVars, keyVars>>
nonBinVars == <<schedVars, fieldVars, posVars, mapsVars, clVars, apsVars, debiasVars, mixVars, heapVars, fitsVars, keyVars>>
nonMixVars == <<schedVars, fieldVars, posVars, mapsVars, clVars, apsVars, debiasVars, binVars, heapVars, fitsVars, keyVars>>
nonHeapVars == <<schedVars, fieldVars, posVars, mapsVars, clVars, apsVars, debiasVars, binVars, mixVars, fitsVars, keyVars>>
nonFitsVars == <<schedVars, fieldVars, posVars, mapsVars, clVars, apsVars, debiasVars, binVars, mixVars, heapVars, keyVars>>
nonKeyVars == <<schedVars, fieldVars, posVars, mapsVars, clVars, apsVars, debiasVars, binVars, mixVars, heapVars, fitsVars>>

\* the value of every variable of a component that a specification does not run
Idle == "idle"

FieldIdle ==
    /\ fcfg = Idle /\ fpc = Idle /\ fpages = Idle /\ frows = Idle /\ acc = Idle
    /\ pg = Idle /\ cacc = Idle /\ cpg = Idle /\ ref = Idle /\ fres = Idle /\ cres = Idle
    /\ macc = Idle

PosIdle ==
    /\ pcfg = Idle /\ ppc = Idle /\ ppages = Idle /\ pos = Idle /\ pngal = Idle
    /\ praw = Idle /\ pread = Idle /\ pwarn = Idle /\ pcounts = Idle /\ pres = Idle
    /\ perr = Idle

MapsIdle ==
    mcfg = Idle /\ mpc = Idle /\ mi = Idle /\ mmaps = Idle /\ alms = Idle /\ merr = Idle

ClIdle ==
    cin = Idle /\ cpc = Idle /\ cm = Idle /\ cstart = Idle /\ ccl = Idle /\ cerr = Idle

ApsIdle ==
    ain = Idle /\ apc = Idle /\ ai = Idle /\ acls = Idle /\ anames = Idle

DebiasIdle ==
    /\ din = Idle /\ dpc = Idle /\ dcl = Idle /\ dout = Idle /\ derr = Idle
    /\ dheap = Idle

BinIdle ==
    bin_in = Idle /\ bpc = Idle /\ bw = Idle /\ binned = Idle /\ berr = Idle

MixIdle ==
    xin = Idle /\ xpc = Idle /\ xi = Idle /\ xdone = Idle /\ xout = Idle /\ xcalls = Idle

HeapIdle ==
    /\ harr = Idle /\ htab = Idle /\ hobj = Idle /\ hheld = Idle /\ herr = Idle
    /\ hop = Idle

FitsIdle ==
    tin = Idle /\ tpc = Idle /\ tstart = Idle /\ tpages = Idle /\ tcache = Idle

KeyIdle ==
    kin = Idle /\ kpc = Idle /\ kqueue = Idle /\ klook = Idle

SchedIdle ==
    /\ impl = Idle /\ parallel = Idle /\ cat = Idle /\ kind = Idle /\ include = Idle
    /\ exclude = Idle /\ gidx = Idle /\ pc = Idle /\ invoked = Idle /\ results = Idle
    /\ active = Idle /\ consumed = Idle /\ co = Idle /\ drawn = Idle /\ page = Idle
    /\ ci = Idle /\ fi = Idle /\ queue = Idle /\ out = Idle /\ writes = Idle /\ err = Idle
    /\ tally = Idle

Ellipsis == "..."

\* ---- bounds ----
MaxSize == 3
MaxPageSize == 2

\* ---- the scheduler's inputs ----
FieldOrder == <<"a", "b">>
CatOrder == <<"x", "y">>
Fields == {FieldOrder[n] : n \in 1..Len(FieldOrder)}
Cats == {CatOrder[n] : n \in 1..Len(CatOrder)}
Keys == Fields \X Cats

Range(s) == {s[n] : n \in 1..Len(s)}

\* core.toc_match: a key matches a pattern when every position is equal or
\* the pattern has a wildcard there; it passes when it matches some include
\* pattern (if include is given) and no exclude pattern (if exclude is given)
PatternMatch(pattern, key) ==
    \A n \in 1..Len(key) : pattern[n] = Ellipsis \/ pattern[n] = key[n]

toc_match(key, inc, exc) ==
    /\ ~inc.none => \E p \in inc.patterns : PatternMatch(p, key)
    /\ ~exc.none => ~ \E p \in exc.patterns : PatternMatch(p, key)

\* number of iterations of range(0, size, page_size)
NumPages(size, page_size) == (size + page_size - 1) \div page_size

\* the finished map of field k over catalog i after n pages
MapOf(k, i, n) == [field |-> k, catalog |-> i, pages |-> n]

\* keys of a group in the order the code visits them: catalogs outer, fields inner
RECURSIVE ItemsOf(_)
ItemsOf(group) ==
    IF group = <<>> THEN <<>>
    ELSE [n \in 1..Len(FieldOrder) |-> <<FieldOrder[n], Head(group)>>]
         \o ItemsOf(Tail(group))

\* maps.py: catalogs grouped by (size, page_size) if parallel, else one group each
MapsGroups(c, par) ==
    IF par
    THEN LET keyOf(i) == <<c[i].size, c[i].page_size>>
             firsts == SelectSeq(CatOrder, LAMBDA i :
                          \A n \in 1..Len(CatOrder) :
                              (keyOf(CatOrder[n]) = keyOf(i)) =>
                              (\E m \in 1..n : CatOrder[m] = i))
         IN  [g \in 1..Len(firsts) |->
                 SelectSeq(CatOrder, LAMBDA i : keyOf(i) = keyOf(firsts[g]))]
    ELSE [g \in 1..Len(CatOrder) |-> <<CatOrder[g]>>]

\* fields.py: one group per catalog, flattened into a single group if parallel
FieldsGroups(par) ==
    IF par THEN <<CatOrder>>
    ELSE [g \in 1..Len(CatOrder) |-> <<CatOrder[g]>>]

Groups == IF impl = "maps" THEN MapsGroups(cat, parallel) ELSE FieldsGroups(parallel)

CurGroup == Groups[gidx]

\* mutant: the filter is not consulted
PassingUnfiltered(group) == ItemsOf(group)

Passing(group) == SelectSeq(ItemsOf(group), LAMBDA key : toc_match(key, include, exclude))

CatalogRecords ==
    {c \in [size : 0..MaxSize, page_size : 1..MaxPageSize, avail : 0..MaxSize] :
        c.avail <= NumPages(c.size, c.page_size)}

Put(f, key, v) == [x \in DOMAIN f \cup {key} |-> IF x = key THEN v ELSE f[x]]

ZeroKeys == [key \in Keys |-> 0]

\* a filter argument: None, or a list of patterns
NoFilter == [none |-> TRUE, patterns |-> {}]
Filter(ps) == [none |-> FALSE, patterns |-> ps]

IncludeChoices == {NoFilter, Filter({<<"a", Ellipsis>>}), Filter({<<Ellipsis, "y">>, <<"b", "x">>})}
ExcludeChoices == {NoFilter, Filter({<<Ellipsis, "x">>})}

SchedInit ==
    /\ KeyIdle
    /\ FitsIdle
    /\ HeapIdle
    /\ MixIdle
    /\ BinIdle
    /\ DebiasIdle
    /\ ApsIdle
    /\ ClIdle
    /\ MapsIdle
    /\ FieldIdle
    /\ PosIdle
    /\ impl \in {"maps", "fields"}
    /\ parallel \in BOOLEAN
    /\ cat \in [Cats -> CatalogRecords]
    /\ kind \in {[k \in Fields |-> "paged"], [k \in Fields |-> IF k = "b" THEN "direct" ELSE "paged"]}
    /\ include \in IncludeChoices
    /\ exclude \in ExcludeChoices
    /\ gidx = 1
    /\ pc = "call"
    /\ invoked = {}
    /\ results = <<>>
    /\ active = <<>>
    /\ consumed = ZeroKeys
    /\ co = [key \in Keys |-> "none"]
    /\ drawn = [i \in Cats |-> 0]
    /\ page = 0
    /\ ci = 1
    /\ fi = 1
    /\ queue = <<>>
    /\ out = <<>>
    /\ writes = ZeroKeys
    /\ err = "none"
    /\ tally = [iters |-> [i \in Cats |-> 0], fed |-> [key \in Keys |-> <<>>],
                finals |-> ZeroKeys, sleeps |-> ZeroKeys]

\* ---- maps.map_catalogs: generator-driven scheduler ----

GroupPages == NumPages(cat[CurGroup[1]].size, cat[CurGroup[1]].page_size)

IsGen(key) == kind[key[1]] = "paged"

\* mutant: the driver takes the end of the stream for a page
DrawOutcomeUnchecked(i) == "page"

\* the draw of one page from a catalogue's iterator in the driver loop
DrawOutcome(i) == IF drawn[i] < cat[i].avail THEN "page" ELSE "RuntimeError"

\* lines 749-776: call every map that passes the filter, start the generators
GenCall ==
    /\ impl = "maps" /\ pc = "call"
    /\ LET pass == Passing(CurGroup)
           gen == SelectSeq(pass, IsGen)
       IN  /\ invoked' = invoked \cup Range(pass)
           /\ results' = [key \in Range(pass) |->
                             IF IsGen(key) THEN "generator" ELSE MapOf(key[1], key[2], 0)]
           /\ active' = gen
           /\ co' = [key \in Keys |-> IF key \in Range(gen) THEN "yielded" ELSE co[key]]
           /\ IF gen = <<>>
              THEN pc' = "store" /\ queue' = pass
              ELSE pc' = "draw" /\ queue' = <<>>
    /\ page' = 0 /\ ci' = 1 /\ fi' = 1
    /\ UNCHANGED <<impl, parallel, cat, kind, include, exclude, gidx, consumed,
                   drawn, out, writes, err>>
    /\ tally' = [tally EXCEPT !.iters =
                    [i \in Cats |-> IF SelectSeq(Passing(CurGroup), IsGen) # <<>>
                                       /\ i \in Range(CurGroup)
                                    THEN @[i] + 1 ELSE @[i]]]
    /\ UNCHANGED nonSchedVars

\* lines 783-791: next(it) for the catalogue at position ci
GenDraw ==
    /\ impl = "maps" /\ pc = "draw" /\ page < GroupPages
    /\ LET i == CurGroup[ci]
       IN  IF DrawOutcome(i) = "page"
           THEN /\ drawn' = [drawn EXCEPT ![i] = @ + 1]
                /\ pc' = "feed" /\ fi' = 1
                /\ UNCHANGED err
           ELSE /\ err' = DrawOutcome(i)
                /\ pc' = "failed"
                /\ UNCHANGED <<drawn, fi>>
    /\ UNCHANGED <<impl, parallel, cat, kind, include, exclude, gidx, invoked,
                   results, active, consumed, co, page, ci, queue, out, writes>>
    /\ UNCHANGED tally
    /\ UNCHANGED nonSchedVars

\* lines 792-794: fn(page.copy()) for the map at position fi, then advance the loops
GenFeed ==
    /\ impl = "maps" /\ pc = "feed"
    /\ LET key == <<FieldOrder[fi], CurGroup[ci]>>
       IN  consumed' = IF key \in Range(active)
                       THEN [consumed EXCEPT ![key] = @ + 1]
                       ELSE consumed
    /\ IF fi < Len(FieldOrder)
       THEN fi' = fi + 1 /\ UNCHANGED <<pc, ci, page>>
       ELSE /\ fi' = 1 /\ pc' = "draw"
            /\ IF ci < Len(CurGroup)
               THEN ci' = ci + 1 /\ UNCHANGED page
               ELSE ci' = 1 /\ page' = page + 1
    /\ UNCHANGED <<impl, parallel, cat, kind, include, exclude, gidx, invoked,
                   results, active, co, drawn, queue, out, writes, err>>
    /\ LET key == <<FieldOrder[fi], CurGroup[ci]>>
       IN  tally' = IF key \in Range(active)
                    THEN [tally EXCEPT !.fed[key] = Append(@, drawn[CurGroup[ci]])]
                    ELSE tally
    /\ UNCHANGED nonSchedVars

\* lines 797-801: the loop is over; "del fn, fns" needs fn bound by an iteration
GenEndLoop ==
    /\ impl = "maps" /\ pc = "draw" /\ page >= GroupPages
    /\ IF GroupPages = 0
       THEN pc' = "failed" /\ err' = "UnboundLocalError" /\ UNCHANGED queue
       ELSE pc' = "finalize" /\ queue' = active /\ UNCHANGED err
    /\ UNCHANGED <<impl, parallel, cat, kind, include, exclude, gidx, invoked,
                   results, active, consumed, co, drawn, page, ci, fi, out, writes>>
    /\ UNCHANGED tally
    /\ UNCHANGED nonSchedVars

\* lines 806-807 and _close_and_return: resume one generator to get its map
GenFinalize ==
    /\ impl = "maps" /\ pc = "finalize"
    /\ LET key == Head(queue)
       IN  /\ results' = [results EXCEPT ![key] = MapOf(key[1], key[2], consumed[key])]
           /\ co' = [co EXCEPT ![key] = "done"]
    /\ IF Tail(queue) = <<>>
       THEN pc' = "store" /\ queue' = Passing(CurGroup)
       ELSE queue' = Tail(queue) /\ UNCHANGED pc
    /\ UNCHANGED <<impl, parallel, cat, kind, include, exclude, gidx, invoked,
                   active, consumed, drawn, page, ci, fi, out, writes, err>>
    /\ tally' = [tally EXCEPT !.finals[Head(queue)] = @ + 1]
    /\ UNCHANGED nonSchedVars

\* ---- fields.map_catalogs: coroutine-driven scheduler ----

\* mutant: the page loop does not loop (it returns after its first page)
PagesStepFirstPageOnly(st, n, avail) ==
    CASE st = "new"   -> [co |-> IF avail > 0 THEN "page" ELSE "final", consumed |-> n]
      [] st = "page"  -> [co |-> "final", consumed |-> n + 1]
      [] st = "final" -> [co |-> "done", consumed |-> n]

\* mutant: the page loop does not suspend before each page
PagesStepNoSleep(st, n, avail) ==
    CASE st = "new"   -> [co |-> "final", consumed |-> avail]
      [] st = "page"  -> [co |-> "final", consumed |-> avail]
      [] st = "final" -> [co |-> "done", consumed |-> n]

\* mutant: _pages does not suspend again after the last page
PagesStepNoFinalSleep(st, n, avail) ==
    CASE st = "new"   -> [co |-> IF avail > 0 THEN "page" ELSE "done", consumed |-> n]
      [] st = "page"  -> [co |-> IF n + 1 < avail THEN "page" ELSE "done", consumed |-> n + 1]
      [] st = "final" -> [co |-> "done", consumed |-> n]

\* One resumption of a field coroutine that iterates its catalogue through
\* _pages: from st with n pages processed, run to the next suspension.
\* "page": suspended in the sleep before a fetched page is handed over;
\* "final": suspended in the sleep after the last page.
PagesStep(st, n, avail) ==
    CASE st = "new"   -> [co |-> IF avail > 0 THEN "page" ELSE "final", consumed |-> n]
      [] st = "page"  -> [co |-> IF n + 1 < avail THEN "page" ELSE "final", consumed |-> n + 1]
      [] st = "final" -> [co |-> "done", consumed |-> n]

\* one resumption of the coroutine of `key`: a field without a page loop
\* (Visibility) runs to its end at once
FieldStep(key) ==
    IF kind[key[1]] = "direct"
    THEN [co |-> "done", consumed |-> consumed[key]]
    ELSE PagesStep(co[key], consumed[key], cat[key[2]].avail)

\* coroutines.gather: the pending coroutines are resumed in turn, in order
NextTurn(coNew, from) ==
    LET n == Len(active)
        order == [m \in 1..n |-> ((from + m - 1) % n) + 1]
        pending == SelectSeq(order, LAMBDA j : coNew[active[j]] # "done")
    IN  IF pending = <<>> THEN 0 ELSE Head(pending)

\* lines 778-786: create the coroutine of every field that passes the filter
AsyncCall ==
    /\ impl = "fields" /\ pc = "call"
    /\ LET pass == Passing(CurGroup)
       IN  /\ invoked' = invoked \cup Range(pass)
           /\ active' = pass
           /\ co' = [key \in Keys |-> IF key \in Range(pass) THEN "new" ELSE co[key]]
           /\ IF pass = <<>>
              THEN pc' = "store"
              ELSE pc' = "run"
    /\ queue' = <<>> /\ fi' = 1 /\ results' = <<>>
    /\ UNCHANGED <<impl, parallel, cat, kind, include, exclude, gidx, consumed,
                   drawn, page, ci, out, writes, err>>
    /\ UNCHANGED tally
    /\ UNCHANGED nonSchedVars

\* line 789: coroutines.run(coroutines.gather(*coros)) resumes the coroutine
\* whose turn it is; when the last one returns, the results are complete
AsyncStep ==
    /\ impl = "fields" /\ pc = "run"
    /\ LET key == active[fi]
           step == FieldStep(key)
           coNew == [co EXCEPT ![key] = step.co]
           turn == NextTurn(coNew, fi)
       IN  /\ co' = coNew
           /\ consumed' = [consumed EXCEPT ![key] = step.consumed]
           /\ results' = IF step.co = "done"
                         THEN Put(results, key, MapOf(key[1], key[2], step.consumed))
                         ELSE results
           /\ IF turn = 0
              THEN pc' = "store" /\ queue' = active /\ fi' = 1
              ELSE fi' = turn /\ UNCHANGED <<pc, queue>>
    /\ UNCHANGED <<impl, parallel, cat, kind, include, exclude, gidx, invoked,
                   active, drawn, page, ci, out, writes, err>>
    /\ tally' = IF FieldStep(active[fi]).co # "done"
                 THEN [tally EXCEPT !.sleeps[active[fi]] = @ + 1]
                 ELSE tally
    /\ UNCHANGED nonSchedVars

\* ---- both schedulers: store the results of the group, go to the next group ----

\* maps.py lines 817-818, fields.py lines 792-793: out[key] = value
StoreEntry ==
    /\ pc = "store" /\ queue # <<>>
    /\ LET key == Head(queue)
       IN  /\ out' = Put(out, key, results[key])
           /\ writes' = [writes EXCEPT ![key] = @ + 1]
    /\ queue' = Tail(queue)
    /\ UNCHANGED <<impl, parallel, cat, kind, include, exclude, gidx, pc, invoked,
                   results, active, consumed, co, drawn, page, ci, fi, err>>
    /\ UNCHANGED tally
    /\ UNCHANGED nonSchedVars

\* the end of the loop body over groups
GroupDone ==
    /\ pc = "store" /\ queue = <<>>
    /\ IF gidx < Len(Groups)
       THEN gidx' = gidx + 1 /\ pc' = "call"
       ELSE pc' = "done" /\ UNCHANGED gidx
    /\ results' = <<>> /\ active' = <<>>
    /\ UNCHANGED <<impl, parallel, cat, kind, include, exclude, invoked, consumed,
                   co, drawn, page, ci, fi, queue, out, writes, err>>
    /\ UNCHANGED tally
    /\ UNCHANGED nonSchedVars

SchedNext ==
    \/ GenCall
    \/ GenDraw
    \/ GenFeed
    \/ GenEndLoop
    \/ GenFinalize
    \/ AsyncCall
    \/ AsyncStep
    \/ StoreEntry
    \/ GroupDone

SpecSched == SchedInit /\ [][SchedNext]_vars

(***************************************************************************)
(* ScalarField / ComplexField: the page loop, the mapping kernels and the  *)
(* running statistics, in exact rational arithmetic.  The kernel loop is   *)
(* followed row by row; the end of a page updates the running statistics.  *)
(***************************************************************************)

\* ---- bounds ----
MaxTotalRows == 4
MaxFieldPages == 3

\* ---- rational numbers [n, d] in lowest terms with d > 0; d = 0 is the
\* ---- result of a division by zero (nan / inf / ZeroDivisionError) ----
NaN == [n |-> 0, d |-> 0]

Abs(x) == IF x < 0 THEN -x ELSE x

RECURSIVE GCD(_, _)
GCD(a, b) == IF b = 0 THEN a ELSE GCD(b, a % b)

Norm(n, d) ==
    IF d = 0 THEN NaN
    ELSE LET g == GCD(Abs(n), Abs(d))
             sgn == IF d < 0 THEN -1 ELSE 1
         IN  [n |-> (sgn * n) \div g, d |-> (sgn * d) \div g]

R(n) == [n |-> n, d |-> 1]
IsNaN(a) == a.d = 0
RAdd(a, b) == IF IsNaN(a) \/ IsNaN(b) THEN NaN ELSE Norm(a.n * b.d + b.n * a.d, a.d * b.d)
RSub(a, b) == IF IsNaN(a) \/ IsNaN(b) THEN NaN ELSE Norm(a.n * b.d - b.n * a.d, a.d * b.d)
RMul(a, b) == IF IsNaN(a) \/ IsNaN(b) THEN NaN ELSE Norm(a.n * b.n, a.d * b.d)
RDiv(a, b) == IF IsNaN(a) \/ IsNaN(b) THEN NaN ELSE Norm(a.n * b.d, a.d * b.n)

\* ---- catalogue rows ----
Pix == {1, 2}
WeightValues == {0, 1, 2}
Values == {-1, 2}

\* the rows of the catalogues: the second value column is 1 - re; a scalar
\* field reads one value column and a field without weight column no weight,
\* so rows that differ only there are the same input
Rows == {r \in [pix : Pix, w : WeightValues, re : Values, im : Values] : r.im = 1 - r.re}
RowsOf(cfg) == IF cfg.wcol THEN Rows ELSE {r \in Rows : r.w = 1}

\* ---- the locals of the coroutine ----
Zeros == [i \in Pix |-> R(0)]
NewAcc == [wht |-> Zeros, val |-> <<Zeros, Zeros>>, ngal |-> 0, wmean |-> R(0), var |-> R(0)]

\* the rows of the current page after deletion: page.size, w.sum(), and
\* ((w * v) ** 2).sum()
NewPage == [size |-> 0, sw |-> 0, sq |-> 0]

\* mutant: the zero-weight rows stay in the page
RetainedAll(rows, cfg) == rows

\* page.delete(page[wcol] == 0), if the field has a weight column
Retained(rows, cfg) == IF cfg.wcol THEN SelectSeq(rows, LAMBDA r : r.w # 0) ELSE rows

\* the weight of a row: the weight column, or ones
WeightOf(r, cfg) == IF cfg.wcol THEN r.w ELSE 1

\* mutant: the running mean is updated with the weight before this sample
KernelStepOldWeight(a, r, cfg) ==
    LET i == r.pix
        w == R(WeightOf(r, cfg))
        f == RDiv(w, IF a.wht[i] = R(0) THEN w ELSE a.wht[i])
        upd(comp, v) == [a.val[comp] EXCEPT ![i] = RAdd(@, RMul(f, RSub(R(v), @)))]
    IN  [a EXCEPT !.wht = [a.wht EXCEPT ![i] = RAdd(a.wht[i], w)],
                  !.val = <<upd(1, r.re), IF cfg.complex THEN upd(2, r.im) ELSE a.val[2]>>]

\* one iteration of _map_real / _map_complex:
\*   wht[i] += w;  val[c, i] += w / wht[i] * (v_c - val[c, i])
KernelStep(a, r, cfg) ==
    LET i == r.pix
        w == R(WeightOf(r, cfg))
        W == RAdd(a.wht[i], w)
        f == RDiv(w, W)
        upd(comp, v) == [a.val[comp] EXCEPT ![i] = RAdd(@, RMul(f, RSub(R(v), @)))]
    IN  [a EXCEPT !.wht = [a.wht EXCEPT ![i] = W],
                  !.val = <<upd(1, r.re), IF cfg.complex THEN upd(2, r.im) ELSE a.val[2]>>]

\* _map_real / _map_complex over rows, in order
RECURSIVE MapKernel(_, _, _)
MapKernel(a, rows, cfg) ==
    IF rows = <<>> THEN a
    ELSE MapKernel(KernelStep(a, Head(rows), cfg), Tail(rows), cfg)

\* (w * v) ** 2, or (w * re) ** 2 + (w * im) ** 2
Power(r, cfg) ==
    LET w == WeightOf(r, cfg)
    IN  (w * r.re) * (w * r.re) + (IF cfg.complex THEN (w * r.im) * (w * r.im) ELSE 0)

\* the page's size and sums with more rows
RECURSIVE PageAdd(_, _, _)
PageAdd(p, rows, cfg) ==
    IF rows = <<>> THEN p
    ELSE PageAdd([size |-> p.size + 1,
                  sw |-> p.sw + WeightOf(Head(rows), cfg),
                  sq |-> p.sq + Power(Head(rows), cfg)], Tail(rows), cfg)

\* mutant: the running means are averaged over the page instead of all rows so far
PageStatsPerPage(a, p) ==
    LET n == p.size
        delta(sum, mean) == RDiv(RSub(R(sum), RMul(R(n), mean)), R(n))
    IN  IF n # 0
        THEN [a EXCEPT !.ngal = a.ngal + n,
                       !.wmean = RAdd(a.wmean, delta(p.sw, a.wmean)),
                       !.var = RAdd(a.var, delta(p.sq, a.var))]
        ELSE a

\* if page.size: ngal += page.size; wmean += (w - wmean).sum() / ngal;
\*               var += ((w * v) ** 2 - var).sum() / ngal
PageStats(a, p) ==
    LET n == p.size
        ngal == a.ngal + n
        delta(sum, mean) == RDiv(RSub(R(sum), RMul(R(n), mean)), R(ngal))
    IN  IF n # 0
        THEN [a EXCEPT !.ngal = ngal,
                       !.wmean = RAdd(a.wmean, delta(p.sw, a.wmean)),
                       !.var = RAdd(a.var, delta(p.sq, a.var))]
        ELSE a

\* ngal, wmean, var = 0, 0.0, 0.0 before the mapper of ScalarMap / ComplexMap
NewStats == [ngal |-> 0, wmean |-> R(0), var |-> R(0)]

\* the end of the mapper of ScalarMap / ComplexMap:
\*   ngal += page.size; wmean += (w - wmean).sum() / ngal;
\*   var += ((w * v) ** 2 - var).sum() / ngal
\* a division by ngal = 0 gives nan (a numpy float divided by zero)
MapperStats(a, p) ==
    LET n == p.size
        ngal == a.ngal + n
        delta(sum, mean) == RDiv(RSub(R(sum), RMul(R(n), mean)), R(ngal))
    IN  [ngal |-> ngal,
         wmean |-> RAdd(a.wmean, delta(p.sw, a.wmean)),
         var |-> RAdd(a.var, delta(p.sq, a.var))]

\* the code after the page loop: mean weight, normalisation, bias (in units
\* of pi), the sum map and its metadata
Finish(a, cfg, normalize, vbar) ==
    LET npix == Cardinality(Pix)
        wbar == RMul(RDiv(RDiv(R(a.ngal), R(npix)), vbar), a.wmean)
        wht == IF normalize THEN [i \in Pix |-> RDiv(a.wht[i], wbar)] ELSE a.wht
        coef == IF cfg.complex THEN 2 ELSE 4
        bias == IF normalize
                THEN RMul(RDiv(RMul(R(coef), RMul(vbar, vbar)), R(a.ngal)),
                          RDiv(a.var, RMul(a.wmean, a.wmean)))
                ELSE RMul(RMul(RDiv(R(coef), R(npix)), RDiv(R(a.ngal), R(npix))), a.var)
        comps == IF cfg.complex THEN {1, 2} ELSE {1}
    IN  [map |-> [c \in comps |-> [i \in Pix |-> RMul(a.val[c][i], wht[i])]],
         wbar |-> wbar, bias |-> bias, power |-> IF normalize THEN 0 ELSE 1]

\* ---- plain sums over the rows given to the kernel, the rows dropped and
\* ---- the pages that kept rows ----
ZeroInts == [i \in Pix |-> 0]
NewRef == [cnt |-> ZeroInts, sumw |-> ZeroInts, sumwv |-> <<ZeroInts, ZeroInts>>,
           n |-> 0, sw |-> 0, sq |-> 0, dropped |-> 0, pages |-> 0]

RefAdd(g, r, cfg) ==
    IF cfg.wcol /\ r.w = 0
    THEN [g EXCEPT !.dropped = @ + 1]
    ELSE LET w == WeightOf(r, cfg)
         IN  [g EXCEPT !.cnt[r.pix] = @ + 1,
                       !.sumw[r.pix] = @ + w,
                       !.sumwv[1][r.pix] = @ + w * r.re,
                       !.sumwv[2][r.pix] = @ + (IF cfg.complex THEN w * r.im ELSE 0),
                       !.n = @ + 1, !.sw = @ + w, !.sq = @ + Power(r, cfg)]

NoResult == [map |-> <<>>, wbar |-> NaN, bias |-> NaN, power |-> -1]

FieldConfigs == [complex : BOOLEAN, wcol : BOOLEAN]

\* the mean of the catalogue's visibility map, 1 without one
MeanVisibilities == {R(1), Norm(1, 2)}

FieldInit ==
    /\ KeyIdle
    /\ FitsIdle
    /\ HeapIdle
    /\ MixIdle
    /\ BinIdle
    /\ DebiasIdle
    /\ ApsIdle
    /\ ClIdle
    /\ MapsIdle
    /\ SchedIdle
    /\ PosIdle
    /\ fcfg \in FieldConfigs
    /\ fpc = "paging"
    /\ fpages = 0
    /\ frows = 0
    /\ acc = NewAcc
    /\ cacc = NewAcc
    /\ pg = NewPage
    /\ cpg = NewPage
    /\ ref = NewRef
    /\ fres = NoResult
    /\ cres = NoResult
    /\ macc = NewStats

\* One row of the current page: deleted if its weight is zero, else one
\* iteration of the kernel.  The second aggregation reads the catalogue
\* from which the zero-weight rows were removed beforehand.
FieldRow ==
    /\ fpc = "paging" /\ frows < MaxTotalRows /\ fpages < MaxFieldPages
    /\ \E r \in RowsOf(fcfg) :
         LET kept == Retained(<<r>>, fcfg)
             clean == Retained(SelectSeq(<<r>>, LAMBDA x : x.w # 0), fcfg)
         IN  /\ acc' = MapKernel(acc, kept, fcfg)
             /\ pg' = PageAdd(pg, kept, fcfg)
             /\ cacc' = MapKernel(cacc, clean, fcfg)
             /\ cpg' = PageAdd(cpg, clean, fcfg)
             /\ ref' = RefAdd(ref, r, fcfg)
    /\ frows' = frows + 1
    /\ UNCHANGED <<fcfg, fpc, fpages, fres, cres, macc>>
    /\ UNCHANGED nonFieldVars

\* the end of the loop body: the running statistics take in the page
FieldEndPage ==
    /\ fpc = "paging" /\ fpages < MaxFieldPages
    /\ acc' = PageStats(acc, pg)
    /\ cacc' = PageStats(cacc, cpg)
    /\ macc' = MapperStats(macc, pg)
    /\ pg' = NewPage
    /\ cpg' = NewPage
    /\ fpages' = fpages + 1
    /\ ref' = [ref EXCEPT !.pages = @ + (IF pg.size > 0 THEN 1 ELSE 0)]
    /\ UNCHANGED <<fcfg, fpc, frows, fres, cres>>
    /\ UNCHANGED nonFieldVars

\* the catalogue is exhausted: finish the map and return it
FieldFinish ==
    /\ fpc = "paging" /\ pg = NewPage /\ cpg = NewPage
    /\ \E normalize \in BOOLEAN : \E vbar \in MeanVisibilities :
         /\ fres' = Finish(acc, fcfg, normalize, vbar)
         /\ cres' = Finish(cacc, fcfg, normalize, vbar)
    /\ fpc' = "done"
    /\ UNCHANGED <<fcfg, fpages, frows, acc, cacc, pg, cpg, ref, macc>>
    /\ UNCHANGED nonFieldVars

FieldNext ==
    \/ FieldRow
    \/ FieldEndPage
    \/ FieldFinish

SpecField == FieldInit /\ [][FieldNext]_vars

(***************************************************************************)
(* Claims about the schedulers (SpecSched)                                 *)
(***************************************************************************)

\* the pages the aggregation of a key has to process
PagesOf(key) == IF IsGen(key) THEN cat[key[2]].avail ELSE 0

PassKeys == {key \in Keys : toc_match(key, include, exclude)}

\* the driver of maps.map_catalogs asks an exhausted iterator for a page
Exhausted ==
    /\ impl = "maps" /\ pc = "draw" /\ page < GroupPages
    /\ drawn[CurGroup[ci]] >= cat[CurGroup[ci]].avail

\* C1: in maps.map_catalogs, when the iterator of a catalogue of the group is
\* exhausted before ceil(size / page_size) pages were drawn from it, the call
\* ends in a RuntimeError, and no key of that group is in the output mapping
\* (neither at the raise nor later: nothing happens after the raise).
C1_PrematureEndRaises ==
    /\ [][Exhausted => (pc' = "failed" /\ err' = "RuntimeError" /\ out' = out)]_vars
    /\ [](err = "RuntimeError" =>
            /\ pc = "failed"
            /\ \A key \in DOMAIN out : ~(key[2] \in Range(CurGroup)))
    /\ [][pc = "failed" => pc' = "failed" /\ out' = out]_vars

C1_Witness ==
    /\ err = "RuntimeError" /\ parallel /\ Len(CurGroup) = 2
    /\ \E key \in Keys : consumed[key] > 0

\* C2: the field of a key is invoked, and out[key] written, only for keys that
\* pass the include/exclude filter; when the call returns, exactly the passing
\* keys were invoked and written; a stored value is the map its field
\* returned for its catalogue.
C2_FilterDecides ==
    /\ invoked \subseteq PassKeys
    /\ DOMAIN out \subseteq PassKeys
    /\ pc = "done" => (invoked = PassKeys /\ DOMAIN out = PassKeys)
    /\ \A key \in DOMAIN out : out[key] = MapOf(key[1], key[2], consumed[key])

C2_Witness ==
    /\ pc = "done" /\ PassKeys # {} /\ PassKeys # Keys
    /\ \E key \in DOMAIN out : out[key].pages > 0

\* C3: the output mapping holds a key only if its aggregation has finished
\* after consuming every page of its catalogue; every key is written at most
\* once, and the stored map is the finished one.
C3_OnlyFinishedMapsStored ==
    /\ \A key \in Keys : writes[key] = (IF key \in DOMAIN out THEN 1 ELSE 0)
    /\ \A key \in DOMAIN out :
          IsGen(key) =>
            /\ co[key] = "done"
            /\ consumed[key] = cat[key[2]].avail
            /\ out[key].pages = cat[key[2]].avail

C3_Witness ==
    /\ \E key \in DOMAIN out : out[key].pages >= 2
    /\ \E key \in Range(active) : co[key] # "done" /\ consumed[key] = 1

\* C4: of two aggregations of the group being driven, neither is more than
\* one page ahead of the other while the other still has pages to process:
\* page p + 1 of one is never processed before page p of the other.
C4_Lockstep ==
    \A A \in Range(active) : \A B \in Range(active) :
        \/ consumed[A] <= consumed[B] + 1
        \/ consumed[B] = PagesOf(B)

C4_Witness ==
    /\ parallel
    /\ \E A \in Range(active) : \E B \in Range(active) :
          A[2] # B[2] /\ consumed[A] = 2 /\ consumed[B] = 1 /\ PagesOf(B) >= 2

(***************************************************************************)
(* Claims about the scalar and complex fields (SpecField)                  *)
(***************************************************************************)

\* C5: after any sequence of batches through _map_real / _map_complex, in
\* every cell wht is the sum of the weights of the samples that landed there
\* and each component of val is their weighted mean, however the samples
\* were split into batches; a cell without samples still holds its zeros.
C5_KernelWeightedMean ==
    \A i \in Pix :
        /\ acc.wht[i] = R(ref.sumw[i])
        /\ \A c \in {1, 2} :
              acc.val[c][i] = (IF ref.cnt[i] = 0 THEN R(0)
                               ELSE Norm(ref.sumwv[c][i], ref.sumw[i]))

C5_Witness ==
    /\ fcfg.complex /\ fcfg.wcol /\ ref.pages >= 1 /\ pg.size >= 1
    /\ \E i \in Pix : ref.cnt[i] >= 3 /\ acc.val[1][i].d > 1 /\ acc.val[2][i].d > 1
    /\ \E i \in Pix : ref.cnt[i] = 0

\* C6: at the end of every page, and so after the last, ngal, wmean and var
\* are the count, the mean weight and the mean of (w * value) ** 2 of all
\* rows retained so far, as one pass over them gives, whatever the pages.
C6_RunningStatsAreOnePass ==
    (fpc = "done" \/ pg = NewPage) =>
        /\ acc.ngal = ref.n
        /\ acc.wmean = (IF ref.n = 0 THEN R(0) ELSE Norm(ref.sw, ref.n))
        /\ acc.var = (IF ref.n = 0 THEN R(0) ELSE Norm(ref.sq, ref.n))

C6_Witness ==
    /\ fpc = "done" /\ ref.pages >= 2 /\ ref.n >= 3
    /\ acc.wmean.d > 1 /\ acc.var.d > 1

\* C7: with a weight column, the aggregation over a catalogue and the one
\* over the same catalogue without its zero-weight rows are in the same
\* state after every row, and return the same map and metadata.
C7_ZeroWeightRowsDropped ==
    fcfg.wcol => (acc = cacc /\ pg = cpg /\ fres = cres)

C7_Witness ==
    /\ fcfg.wcol /\ fpc = "done" /\ ref.dropped >= 1 /\ ref.n >= 2
    /\ ~IsNaN(fres.bias) /\ \E i \in Pix : fres.map[1][i] # R(0)

(***************************************************************************)
(* Position fields: fields.py Positions.__call__ and its predecessor       *)
(* maps.py PositionMap.__call__.  A page is given by the number of its     *)
(* rows that ang2pix puts in each cell, which is all _map_pos depends on.  *)
(* The visibility map has the resolution of the field.  Arithmetic is      *)
(* exact; a numpy division by zero gives NaN, a division of Python         *)
(* numbers by zero raises ZeroDivisionError.  Bias is in units of pi.      *)
(***************************************************************************)
MaxPerCell == 2
MaxPosPages == 2

npix == Cardinality(Pix)

RLess(a, b) == a.n * b.d < b.n * a.d

RECURSIVE SumOver(_, _)
SumOver(f, S) ==
    IF S = {} THEN 0
    ELSE LET i == CHOOSE j \in S : TRUE IN f[i] + SumOver(f, S \ {i})

RECURSIVE RSumOver(_, _)
RSumOver(f, S) ==
    IF S = {} THEN R(0)
    ELSE LET i == CHOOSE j \in S : TRUE IN RAdd(f[i], RSumOver(f, S \ {i}))

\* page.size
PageSize(p) == SumOver(p, Pix)

PosPages == [Pix -> 0..MaxPerCell]

\* catalog.visibility: None, or a map over the cells with a positive sum
NoVisibility == [given |-> FALSE, map |-> [i \in Pix |-> R(1)]]
VisibilityChoices ==
    { NoVisibility,
      [given |-> TRUE, map |-> [i \in Pix |-> R(1)]],
      [given |-> TRUE, map |-> [i \in Pix |-> IF i = 1 THEN R(1) ELSE R(0)]] }

\* the nbar argument of Positions: None, or a positive density
NoNbar == [given |-> FALSE, value |-> NaN]
NbarChoices == { NoNbar, [given |-> TRUE, value |-> R(1)], [given |-> TRUE, value |-> R(6)] }

\* PositionMap has no nbar argument
PosConfigs ==
    { c \in [impl : {"Positions", "PositionMap"}, overdensity : BOOLEAN,
             randomize : BOOLEAN, nbar : NbarChoices, vis : VisibilityChoices] :
        c.impl = "PositionMap" => c.nbar = NoNbar }

PosNoResult == [map |-> <<>>, nbar |-> NaN, bias |-> NaN]

\* `del page, lon, lat` at the end of the loop body of Positions: lon and lat
\* are bound in this iteration only if the columns were read; the mapper of
\* PositionMap deletes nothing
DelLocals(cfg) ==
    IF cfg.impl = "Positions" /\ cfg.randomize THEN "UnboundLocalError" ELSE "ok"

\* rng.multinomial(ngal, p), p = 1 / npix or vmap / sum(vmap): any counts
\* that sum to ngal and put nothing where p is zero
Multinomial(ngal, vis) ==
    LET p == [i \in Pix |-> IF vis.given THEN RDiv(vis.map[i], RSumOver(vis.map, Pix))
                            ELSE Norm(1, npix)]
    IN  { d \in [Pix -> 0..ngal] :
            SumOver(d, Pix) = ngal /\ \A i \in Pix : p[i] = R(0) => d[i] = 0 }

\* vbar
MeanVisibility(vis) ==
    IF vis.given THEN RDiv(RSumOver(vis.map, Pix), R(npix)) ELSE R(1)

\* nbar = ngal / vbar / npix
MeasuredNbarTotal(ngal, vbar) == RDiv(R(ngal), vbar)

MeasuredNbar(ngal, vbar) == RDiv(RDiv(R(ngal), vbar), R(npix))

\* abs(nbar - nbar_) > 3 * sigma_nbar with sigma_nbar ** 2 = nbar / vbar / npix,
\* compared as squares
DiffersBy3Sigma(nbar, nbar_, vbar) ==
    LET diff == RSub(nbar, nbar_)
        var == RDiv(RDiv(nbar, vbar), R(npix))
    IN  /\ ~IsNaN(diff) /\ ~IsNaN(var)
        /\ RLess(RMul(R(9), var), RMul(diff, diff))

\* the mean density after the override
UsedNbarMeasuredIfFar(nbar, user, vbar) ==
    IF user.given /\ ~DiffersBy3Sigma(nbar, user.value, vbar) THEN user.value ELSE nbar

UsedNbar(nbar, user, vbar) ==
    IF user.given THEN user.value ELSE nbar

\* pos /= nbar; pos -= 1 or pos -= vmap
Overdensity(counts, nbar, vis) ==
    [i \in Pix |-> RSub(RDiv(R(counts[i]), nbar), IF vis.given THEN vis.map[i] ELSE R(1))]

CountMap(counts) == [i \in Pix |-> R(counts[i])]

\* Positions.__call__ after the page loop, counts being pos after the draw
PositionsFinish(cfg, counts, ngal) ==
    LET vbar == MeanVisibility(cfg.vis)
        measured == MeasuredNbar(ngal, vbar)
        warn == cfg.nbar.given /\ DiffersBy3Sigma(measured, cfg.nbar.value, vbar)
        nbar == UsedNbar(measured, cfg.nbar, vbar)
        bias == Norm(4 * ngal, npix * npix)
        \* bias /= nbar ** 2 with the Python float nbar = ngal / 1 / npix = 0.0
        zerodiv == cfg.overdensity /\ ~cfg.vis.given /\ ~cfg.nbar.given /\ ngal = 0
    IN  [err |-> IF zerodiv THEN "ZeroDivisionError" ELSE "none",
         warn |-> warn,
         map |-> IF cfg.overdensity THEN Overdensity(counts, nbar, cfg.vis)
                 ELSE CountMap(counts),
         nbar |-> nbar,
         bias |-> IF cfg.overdensity THEN RDiv(bias, RMul(nbar, nbar)) ELSE bias]

\* PositionMap.__call__ after the mapper has seen every page
PositionMapFinish(cfg, counts, ngal) ==
    LET vbar == MeanVisibility(cfg.vis)
        nbar == IF cfg.vis.given THEN RDiv(Norm(ngal, npix), vbar) ELSE Norm(ngal, npix)
        \* 4 * np.pi * vbar ** 2 / ngal with the Python numbers vbar = 1, ngal = 0
        zerodiv == cfg.overdensity /\ ~cfg.vis.given /\ ngal = 0
    IN  [err |-> IF zerodiv THEN "ZeroDivisionError" ELSE "none",
         warn |-> FALSE,
         map |-> IF cfg.overdensity THEN Overdensity(counts, nbar, cfg.vis)
                 ELSE CountMap(counts),
         nbar |-> nbar,
         bias |-> IF cfg.overdensity THEN RDiv(RMul(R(4), RMul(vbar, vbar)), R(ngal))
                  ELSE Norm(4 * ngal, npix * npix)]

PosInit ==
    /\ KeyIdle
    /\ FitsIdle
    /\ HeapIdle
    /\ MixIdle
    /\ BinIdle
    /\ DebiasIdle
    /\ ApsIdle
    /\ ClIdle
    /\ MapsIdle
    /\ SchedIdle
    /\ FieldIdle
    /\ pcfg \in PosConfigs
    /\ ppc = "paging"
    /\ ppages = 0
    /\ pos = ZeroInts
    /\ pngal = 0
    /\ praw = ZeroInts
    /\ pread = FALSE
    /\ pwarn = FALSE
    /\ pcounts = ZeroInts
    /\ pres = PosNoResult
    /\ perr = "none"

\* One iteration of the page loop: read the columns and count the rows per
\* cell unless randomizing, add the page size to ngal, delete the locals.
PosPage ==
    /\ ppc = "paging"
    /\ ppages < MaxPosPages
    /\ \E p \in PosPages :
          /\ pos' = (IF pcfg.randomize THEN pos ELSE [i \in Pix |-> pos[i] + p[i]])
          /\ pread' = (pread \/ ~pcfg.randomize)
          /\ pngal' = pngal + PageSize(p)
          /\ praw' = [i \in Pix |-> praw[i] + p[i]]
    /\ ppages' = ppages + 1
    /\ LET del == DelLocals(pcfg)
       IN  IF del = "ok"
           THEN UNCHANGED <<ppc, perr>>
           ELSE ppc' = "failed" /\ perr' = del
    /\ UNCHANGED <<pcfg, pwarn, pcounts, pres>>
    /\ UNCHANGED nonPosVars

\* The catalogue has no more pages: draw the random counts if asked to,
\* compute the mean density, the bias and the overdensity, return the map.
PosFinish ==
    /\ ppc = "paging"
    /\ \E counts \in (IF pcfg.randomize THEN Multinomial(pngal, pcfg.vis) ELSE {pos}) :
          LET r == IF pcfg.impl = "Positions" THEN PositionsFinish(pcfg, counts, pngal)
                   ELSE PositionMapFinish(pcfg, counts, pngal)
          IN  /\ pos' = counts
              /\ pcounts' = counts
              /\ pwarn' = r.warn
              /\ IF r.err = "none"
                 THEN /\ ppc' = "done"
                      /\ pres' = [map |-> r.map, nbar |-> r.nbar, bias |-> r.bias]
                      /\ UNCHANGED perr
                 ELSE /\ ppc' = "failed"
                      /\ perr' = r.err
                      /\ UNCHANGED pres
    /\ UNCHANGED <<pcfg, ppages, pngal, praw, pread>>
    /\ UNCHANGED nonPosVars

PosNext == PosPage \/ PosFinish

SpecPos == PosInit /\ [][PosNext]_vars

(***************************************************************************)
(* Claims about the position fields (SpecPos)                              *)
(***************************************************************************)

\* the rows of the catalogue fall exactly k per cell, k >= 1
UniformCatalog(k) == k >= 1 /\ \A i \in Pix : praw[i] = k

\* C8: for a catalogue without visibility map whose objects fall exactly k
\* per cell, a position field that does not randomize and has no other mean
\* density than k returns, with overdensity, a map that is zero in every
\* cell and, without, a map equal to k in every cell; nbar is k in both.
C8_UniformCatalog ==
    \A k \in 1..(MaxPerCell * MaxPosPages) :
        ( /\ ppc = "done" /\ UniformCatalog(k)
          /\ ~pcfg.vis.given /\ ~pcfg.randomize
          /\ (pcfg.nbar.given => pcfg.nbar.value = R(k)) )
        => /\ pres.nbar = R(k)
           /\ \A i \in Pix :
                 pres.map[i] = (IF pcfg.overdensity THEN R(0) ELSE R(k))

C8_Witness ==
    /\ ppc = "done" /\ pcfg.impl = "Positions" /\ pcfg.overdensity
    /\ ~pcfg.vis.given /\ ~pcfg.randomize /\ ~pcfg.nbar.given
    /\ UniformCatalog(3) /\ ppages = 2
    /\ pres.nbar = R(3) /\ \A i \in Pix : pres.map[i] = R(0)

\* the user-supplied mean density of a finished Positions field differs from
\* the measured one by more than 3 sigma
NbarFar ==
    /\ ppc = "done" /\ pcfg.impl = "Positions" /\ pcfg.nbar.given
    /\ DiffersBy3Sigma(MeasuredNbar(pngal, MeanVisibility(pcfg.vis)), pcfg.nbar.value,
                       MeanVisibility(pcfg.vis))

\* C9 as stated: when the user-supplied mean density differs from the
\* measured one by more than 3 sigma, the field warns, does not fail, and
\* continues with the measured mean density for nbar, overdensity and bias.
C9_ContinuesWithMeasured ==
    NbarFar =>
        LET nbar == MeasuredNbar(pngal, MeanVisibility(pcfg.vis))
        IN  /\ pwarn
            /\ pres.nbar = nbar
            /\ pcfg.overdensity => pres.map = Overdensity(pcounts, nbar, pcfg.vis)
            /\ pres.bias = (IF pcfg.overdensity
                            THEN RDiv(Norm(4 * pngal, npix * npix), RMul(nbar, nbar))
                            ELSE Norm(4 * pngal, npix * npix))

\* C9 amended: when the user-supplied mean density differs from the measured
\* one by more than 3 sigma, the field warns, does not fail, and continues
\* with the user-supplied mean density for the nbar metadata, the overdensity
\* normalisation and the bias.
C9_ContinuesWithProvided ==
    /\ [](NbarFar =>
          LET nbar == pcfg.nbar.value
          IN  /\ pwarn
              /\ pres.nbar = nbar
              /\ pcfg.overdensity => pres.map = Overdensity(pcounts, nbar, pcfg.vis)
              /\ pres.bias = (IF pcfg.overdensity
                              THEN RDiv(Norm(4 * pngal, npix * npix), RMul(nbar, nbar))
                              ELSE Norm(4 * pngal, npix * npix)))
    /\ [][ ( /\ pcfg.impl = "Positions" /\ pcfg.nbar.given
              /\ ppc = "paging" /\ ppages' = ppages
              /\ DiffersBy3Sigma(MeasuredNbar(pngal, MeanVisibility(pcfg.vis)),
                                 pcfg.nbar.value, MeanVisibility(pcfg.vis)) )
            => (ppc' = "done" /\ pwarn' /\ perr' = "none") ]_vars

C9_Witness ==
    /\ NbarFar /\ pwarn /\ pcfg.overdensity /\ pngal >= 2 /\ ppages = 2
    /\ pres.nbar = R(6)
    /\ MeasuredNbar(pngal, MeanVisibility(pcfg.vis)) # R(6)
    /\ \E i \in Pix : pres.map[i] = Norm(-2, 3)

\* C10 as stated: a Positions field with randomize enabled, over a catalogue
\* with one or more pages, completes without error; before the overdensity
\* step its counts sum to the number of rows of all pages, and no position
\* column is read.
C10_RandomizeCompletes ==
    (pcfg.impl = "Positions" /\ pcfg.randomize /\ ppages >= 1) =>
        /\ ppc # "failed"
        /\ perr = "none"
        /\ ~pread
        /\ ppc = "done" => SumOver(pcounts, Pix) = SumOver(praw, Pix)

(***************************************************************************)
(* From fields to finished maps to coefficients: the metadata the field    *)
(* classes of fields.py put on their maps, and fields.py transform_maps.   *)
(* An array is given by its metadata, a function from entry names to       *)
(* values; the mean weight and the bias take their values from MetaValues. *)
(***************************************************************************)
MapOrder == << <<"T", 0>>, <<"P", 0>>, <<"P", 1>> >>

MetaValues == {1, 2}

\* the field classes; a ComplexField has any spin
FieldKinds ==
    [type : {"Positions", "ScalarField", "Visibility", "Weights"}, spin : {0}]
        \cup [type : {"ComplexField"}, spin : {0, 1, 2}]

\* update_metadata(array, **metadata): the entries given replace or extend
\* the entries present
update_metadata(md, new) == new @@ md

\* metadata_for_result: the static metadata of Field, Healpix and
\* Normalizable, and what each class adds in __call__
FieldResultWithBias(f, normalize, v) ==
    update_metadata(
        ("spin" :> f.spin) @@ ("kernel" :> "healpix") @@ ("nside" :> 1)
            @@ ("power" :> IF f.type # "Visibility" /\ ~normalize THEN 1 ELSE 0),
        ("catalog" :> "label") @@ ("bias" :> v + 1)
            @@ (IF f.type = "Positions" THEN "nbar" :> v ELSE "wbar" :> v))

FieldResult(f, normalize, v) ==
    update_metadata(
        ("spin" :> f.spin) @@ ("kernel" :> "healpix") @@ ("nside" :> 1)
            @@ ("power" :> IF f.type # "Visibility" /\ ~normalize THEN 1 ELSE 0),
        CASE f.type = "Positions" ->
                ("catalog" :> "label") @@ ("nbar" :> v) @@ ("bias" :> v + 1)
          [] f.type \in {"ScalarField", "ComplexField"} ->
                ("catalog" :> "label") @@ ("wbar" :> v) @@ ("bias" :> v + 1)
          [] f.type = "Weights" -> ("catalog" :> "label") @@ ("wbar" :> v)
          [] f.type = "Visibility" -> ("catalog" :> "label"))

\* the entries transform_maps writes for the map at (k, i) with metadata md
AlmEntriesKeepMap(k, i, md) ==
    IF md["spin"] = 0 THEN <<k, i>> :> md
    ELSE (<<k, i>> :> md) @@ (<<k \o "_E", i>> :> md) @@ (<<k \o "_B", i>> :> md)

AlmEntries(k, i, md) ==
    IF md["spin"] = 0 THEN <<k, i>> :> update_metadata(<<>>, md)
    ELSE (<<k \o "_E", i>> :> update_metadata(<<>>, md))
            @@ (<<k \o "_B", i>> :> update_metadata(<<>>, md))

MapsInit ==
    /\ KeyIdle
    /\ FitsIdle
    /\ HeapIdle
    /\ MixIdle
    /\ BinIdle
    /\ DebiasIdle
    /\ ApsIdle
    /\ ClIdle
    /\ SchedIdle
    /\ FieldIdle
    /\ PosIdle
    /\ mcfg \in [fields : [Range(MapOrder) -> FieldKinds], vis : BOOLEAN,
                 normalize : BOOLEAN]
    /\ mpc = "mapping"
    /\ mi = 1
    /\ mmaps = <<>>
    /\ alms = <<>>
    /\ merr = "none"

\* The field of the next key maps its catalogue; Visibility raises
\* ValueError for a catalogue without visibility map.
MapField ==
    /\ mpc = "mapping"
    /\ mi <= Len(MapOrder)
    /\ LET key == MapOrder[mi]
           f == mcfg.fields[key]
       IN  IF f.type = "Visibility" /\ ~mcfg.vis
           THEN /\ mpc' = "failed"
                /\ merr' = "ValueError"
                /\ UNCHANGED <<mi, mmaps>>
           ELSE /\ \E v \in MetaValues :
                      mmaps' = (key :> FieldResult(f, mcfg.normalize, v)) @@ mmaps
                /\ mi' = mi + 1
                /\ UNCHANGED <<mpc, merr>>
    /\ UNCHANGED <<mcfg, alms>>
    /\ UNCHANGED nonMapsVars

\* transform_maps is called with the finished maps.
TransformCall ==
    /\ mpc = "mapping"
    /\ mi > Len(MapOrder)
    /\ mpc' = "transform"
    /\ mi' = 1
    /\ UNCHANGED <<mcfg, mmaps, alms, merr>>
    /\ UNCHANGED nonMapsVars

\* One iteration of the loop of transform_maps, or its return.
TransformStep ==
    /\ mpc = "transform"
    /\ IF mi > Len(MapOrder)
       THEN /\ mpc' = "done"
            /\ UNCHANGED <<mi, alms, merr>>
       ELSE LET key == MapOrder[mi]
                md == mmaps[key]
            IN  IF md["spin"] \in {0, 2}
                THEN /\ alms' = AlmEntries(key[1], key[2], md) @@ alms
                     /\ mi' = mi + 1
                     /\ UNCHANGED <<mpc, merr>>
                ELSE /\ mpc' = "failed"
                     /\ merr' = "NotImplementedError"
                     /\ UNCHANGED <<mi, alms>>
    /\ UNCHANGED <<mcfg, mmaps>>
    /\ UNCHANGED nonMapsVars

MapsNext == MapField \/ TransformCall \/ TransformStep

SpecMaps == MapsInit /\ [][MapsNext]_vars

(***************************************************************************)
(* Claims about the finished maps and their coefficients (SpecMaps)        *)
(***************************************************************************)

MaxAlmLmax == 2
MaxLmaxArg == 7

AlmSeeds == {1, 2, 3}

\* healpy.Alm.getsize and healpy.Alm.getidx
AlmSize(L) == ((L + 1) * (L + 2)) \div 2
AlmIdx(L, l, m) == (m * (2 * L + 1 - m)) \div 2 + l

\* the coefficient (l, m) of the array with the given seed
Coef(s, l, m) ==
    [re |-> ((s * (3 * l + 5 * m + 1)) % 7) - 3,
     im |-> IF m = 0 THEN 0 ELSE ((s + l * m) % 5) - 2]

\* the array, position j holding index j - 1
Alm(L, s) ==
    [j \in 1..AlmSize(L) |->
        LET lm == CHOOSE p \in (0..L) \X (0..L) :
                      p[2] <= p[1] /\ AlmIdx(L, p[1], p[2]) = j - 1
        IN  Coef(s, lm[1], lm[2])]

\* (int((8 * n + 1) ** 0.5 + 0.01) - 3) // 2
alm2lmax(alm) ==
    LET n == Len(alm)
        root == CHOOSE r \in 0..(8 * n + 1) : r * r <= 8 * n + 1 /\ (r + 1) * (r + 1) > 8 * n + 1
    IN  (root - 3) \div 2

\* the positions x[start:stop] selects in an array of n elements
SliceBound(n, i) == IF i < 0 THEN (IF n + i < 0 THEN 0 ELSE n + i) ELSE (IF i > n THEN n ELSE i)
Slice(n, start, stop) ==
    LET a == SliceBound(n, start)
        b == SliceBound(n, stop)
    IN  [j \in 1..(IF b > a THEN b - a ELSE 0) |-> a + j]

\* the length of the broadcast of two one-dimensional shapes, -1 if none
Broadcast(k1, k2) ==
    IF k1 = k2 THEN k1 ELSE IF k1 = 1 THEN k2 ELSE IF k2 = 1 THEN k1 ELSE -1

Min2(a, b) == IF a < b THEN a ELSE b

\* step
ClStep(c) ==
    IF c.lmax = -1 THEN Min2(c.lmax1, c.lmax2) ELSE Min2(c.lmax, Min2(c.lmax1, c.lmax2))

\* the last value of m
ClLast(c) == IF c.lmax = -1 THEN ClStep(c) ELSE c.lmax

\* start += lmax - m + 1
NextStart(start, lmax, m) == start + lmax - m + 1

\* cl[m:] += 2 * (a + b - cl[m:]) / (2 * m + 1) at mode l
ClUpdateNoWeight(cl, x, m) == RAdd(cl, RSub(R(x), cl))

ClUpdate(cl, x, m) == RAdd(cl, RDiv(RMul(R(2), RSub(R(x), cl)), R(2 * m + 1)))

ClInit ==
    /\ KeyIdle
    /\ FitsIdle
    /\ HeapIdle
    /\ MixIdle
    /\ BinIdle
    /\ DebiasIdle
    /\ ApsIdle
    /\ SchedIdle /\ FieldIdle /\ PosIdle /\ MapsIdle
    /\ cin \in [lmax1 : 0..MaxAlmLmax, seed1 : AlmSeeds, lmax2 : 0..MaxAlmLmax,
                seed2 : AlmSeeds, lmax : (-1)..MaxLmaxArg]
    /\ cpc = "loop"
    /\ cm = 1
    /\ cstart = <<alm2lmax(Alm(cin.lmax1, cin.seed1)) + 1, alm2lmax(Alm(cin.lmax2, cin.seed2)) + 1>>
    /\ ccl = [l \in 1..(ClStep(cin) + 1) |->
                 R(Alm(cin.lmax1, cin.seed1)[l].re * Alm(cin.lmax2, cin.seed2)[l].re)]
    /\ cerr = "none"

\* One iteration of the loop over m, or the return after the last.
ClLoop ==
    /\ cpc = "loop"
    /\ IF cm > ClLast(cin)
       THEN /\ cpc' = "done"
            /\ UNCHANGED <<cm, cstart, ccl, cerr>>
       ELSE LET alm == Alm(cin.lmax1, cin.seed1)
                alm2 == Alm(cin.lmax2, cin.seed2)
                step == ClStep(cin)
                s1 == Slice(Len(alm), cstart[1], cstart[1] + step - cm + 1)
                s2 == Slice(Len(alm2), cstart[2], cstart[2] + step - cm + 1)
                tail == Slice(Len(ccl), cm, Len(ccl))
                k == Broadcast(Len(s1), Len(s2))
                shape == IF k = -1 THEN -1 ELSE Broadcast(k, Len(tail))
                at(sl, j) == IF Len(sl) = 1 THEN sl[1] ELSE sl[j]
            IN  IF shape # Len(tail)
                THEN /\ cpc' = "failed"
                     /\ cerr' = "ValueError"
                     /\ UNCHANGED <<cm, cstart, ccl>>
                ELSE /\ ccl' = [l \in 1..Len(ccl) |->
                                  IF l <= cm THEN ccl[l]
                                  ELSE LET j == l - cm
                                           a == alm[at(s1, j)].re * alm2[at(s2, j)].re
                                           b == alm[at(s1, j)].im * alm2[at(s2, j)].im
                                       IN  ClUpdate(ccl[l], a + b, cm)]
                     /\ cstart' = <<NextStart(cstart[1], cin.lmax1, cm),
                                    NextStart(cstart[2], cin.lmax2, cm)>>
                     /\ cm' = cm + 1
                     /\ UNCHANGED <<cpc, cerr>>
    /\ UNCHANGED cin
    /\ UNCHANGED nonClVars

ClNext == ClLoop

SpecCl == ClInit /\ [][ClNext]_vars

(***************************************************************************)
(* Claims about alm2cl (SpecCl)                                            *)
(***************************************************************************)

\* the spectrum of the two arrays at mode l by the direct definition, each
\* coefficient located by the layout of its own array
DirectCl(l) ==
    LET a(m) == Alm(cin.lmax1, cin.seed1)[AlmIdx(cin.lmax1, l, m) + 1]
        b(m) == Alm(cin.lmax2, cin.seed2)[AlmIdx(cin.lmax2, l, m) + 1]
        x(m) == a(m).re * b(m).re + a(m).im * b(m).im
        xs == [m \in 1..l |-> x(m)]
    IN  Norm(a(0).re * b(0).re + 2 * SumOver(xs, 1..l), 2 * l + 1)

\* the same with the two arrays exchanged
DirectClSwapped(l) ==
    LET a(m) == Alm(cin.lmax2, cin.seed2)[AlmIdx(cin.lmax2, l, m) + 1]
        b(m) == Alm(cin.lmax1, cin.seed1)[AlmIdx(cin.lmax1, l, m) + 1]
        x(m) == a(m).re * b(m).re + a(m).im * b(m).im
        xs == [m \in 1..l |-> x(m)]
    IN  Norm(a(0).re * b(0).re + 2 * SumOver(xs, 1..l), 2 * l + 1)

\* C13: for arrays a and b of equal lmax and no requested lmax, alm2cl(a, b)
\* returns at every mode l the value of the direct definition, which is the
\* same for (b, a); with b = a it is the power of a per mode.
C13_DirectDefinition ==
    (cin.lmax1 = cin.lmax2 /\ cin.lmax = -1) =>
        /\ cpc # "failed"
        /\ cpc = "done" =>
              /\ Len(ccl) = cin.lmax1 + 1
              /\ \A l \in 0..cin.lmax1 :
                    ccl[l + 1] = DirectCl(l) /\ ccl[l + 1] = DirectClSwapped(l)

C13_Witness ==
    /\ cpc = "done" /\ cin.lmax1 = 2 /\ cin.lmax2 = 2 /\ cin.lmax = -1
    /\ cin.seed1 # cin.seed2
    /\ \A l \in 0..2 : ccl[l + 1] = DirectCl(l) /\ ccl[l + 1] # R(0)
    /\ ccl[3].d = 5

\* C14 as stated: alm2cl completes for every requested lmax, also one above
\* lmax1 or lmax2, and returns min(lmax1, lmax2) + 1 modes when none is
\* requested and min(lmax, lmax1, lmax2) + 1 otherwise, mode l pairing the
\* coefficients (l, m) of the two arrays, each by its own layout.
C14_ClippedModes ==
    /\ cpc # "failed"
    /\ cpc = "done" =>
          /\ Len(ccl) = 1 + (IF cin.lmax = -1 THEN Min2(cin.lmax1, cin.lmax2)
                             ELSE Min2(cin.lmax, Min2(cin.lmax1, cin.lmax2)))
          /\ \A l \in 0..(Len(ccl) - 1) : ccl[l + 1] = DirectCl(l)

(***************************************************************************)
(* twopoint.py angular_power_spectra, one action per pair of flattened     *)
(* keys.  The coefficients are keyed (name, bin); a spin-0 entry is a      *)
(* one-dimensional array, a spin-2 entry an array of its E and B rows.  A  *)
(* flattened name is the sequence of the parts that "_" joins.  A          *)
(* spectrum is given by its metadata and whether the bias was subtracted.  *)
(***************************************************************************)
AlmSpin == ("P" :> 0) @@ ("G" :> 2)

\* alms as an insertion-ordered mapping: the order of its keys
AlmOrders ==
    { << <<"P", 0>>, <<"P", 1>>, <<"G", 0>>, <<"G", 1>> >>,
      << <<"P", 0>>, <<"G", 0>>, <<"P", 1>>, <<"G", 1>> >>,
      << <<"G", 1>>, <<"P", 1>>, <<"G", 0>> >>,
      << <<"G", 0>>, <<"G", 1>> >>,
      << <<"P", 0>>, <<"G", 0>> >> }

\* the patterns of include= and exclude=: a key with the positions that hold
\* a wildcard (...); a shorter pattern has wildcards in the positions it lacks
ApsPatterns ==
    { [key |-> << <<"P">>, <<"P">>, 0, 0 >>, wild |-> {3, 4}],
      [key |-> << <<"P">>, <<"G", "E">>, 0, 0 >>, wild |-> {3, 4}],
      [key |-> << <<"G", "E">>, <<"G", "B">>, 0, 0 >>, wild |-> {4}],
      [key |-> << <<"P">>, <<"P">>, 1, 0 >>, wild |-> {1, 2, 4}] }

ApsFilters == {NoFilter} \cup {Filter({pat}) : pat \in ApsPatterns}

\* core.toc_match for the keys of spectra
TocMatch(key, inc, exc) ==
    LET match(pat) == \A n \in 1..Len(key) : n \in pat.wild \/ pat.key[n] = key[n]
    IN  /\ ~inc.none => \E pat \in inc.patterns : match(pat)
        /\ ~exc.none => ~ \E pat \in exc.patterns : match(pat)

\* alm.dtype.metadata of the entry (k, i)
AlmMetadata(k, i, biased) ==
    ("spin" :> AlmSpin[k]) @@ ("nside" :> 32)
        @@ (IF k \in biased THEN "bias" :> 3 + i ELSE <<>>)

\* _almkeys
RECURSIVE AlmKeys(_)
AlmKeys(order) ==
    IF order = <<>> THEN <<>>
    ELSE LET k == Head(order)[1]
             i == Head(order)[2]
         IN  (IF AlmSpin[k] = 0 THEN << <<<<k>>, i>> >>
              ELSE << <<<<k, "E">>, i>>, <<<<k, "B">>, i>> >>) \o AlmKeys(Tail(order))

\* combinations_with_replacement(keys, 2), or product(keys, keys)
ApsPairs(order, given2) ==
    LET keys == AlmKeys(order)
        n == Len(keys)
        all == [q \in 1..(n * n) |-> <<((q - 1) \div n) + 1, ((q - 1) % n) + 1>>]
        sel == IF given2 THEN all ELSE SelectSeq(all, LAMBDA x : x[1] <= x[2])
    IN  [q \in 1..Len(sel) |-> <<keys[sel[q][1]], keys[sel[q][2]]>>]

\* the metadata of a spectrum that takes the bias of side 1 for every pair
ClMetadataAnyBias(md1, md2, auto) ==
    LET side(md, sfx) ==
            LET names == DOMAIN md \ {"bias"}
            IN  [e \in {n \o sfx : n \in names} |->
                    md[CHOOSE n \in names : n \o sfx = e]]
    IN  side(md1, "_1") @@ side(md2, "_2")
           @@ (IF "bias" \in DOMAIN md1 THEN "bias" :> md1["bias"] ELSE <<>>)

\* the metadata of the spectrum of sides with metadata md1, md2
ClMetadata(md1, md2, auto) ==
    LET side(md, sfx) ==
            LET names == DOMAIN md \ {"bias"}
            IN  [e \in {n \o sfx : n \in names} |->
                    md[CHOOSE n \in names : n \o sfx = e]]
    IN  side(md1, "_1") @@ side(md2, "_2")
           @@ (IF auto /\ "bias" \in DOMAIN md1 THEN "bias" :> md1["bias"] ELSE <<>>)

\* the body of the loop without the exchange into the standard order
ApsStepNoSwap(st, pair, in) ==
    LET key == <<pair[1][1], pair[2][1], pair[1][2], pair[2][2]>>
        md == ClMetadata(AlmMetadata(Head(key[1]), key[3], in.biased),
                         AlmMetadata(Head(key[2]), key[4], in.biased),
                         key[1] = key[2] /\ key[3] = key[4])
    IN  IF key \in DOMAIN st.cls \/ <<key[2], key[1], key[4], key[3]>> \in DOMAIN st.cls
           \/ ~TocMatch(key, in.include, in.exclude)
        THEN st
        ELSE [cls |-> (key :> [md |-> md, debiased |-> in.debias /\ "bias" \in DOMAIN md])
                         @@ st.cls,
              names |-> st.names \cup {<<key[1], key[2]>>}]

\* the body of the loop for the pair (k1, i1), (k2, i2)
ApsStep(st, pair, in) ==
    LET k1 == pair[1][1]  i1 == pair[1][2]
        k2 == pair[2][1]  i2 == pair[2][2]
        swapped == <<k1, k2>> \notin st.names /\ <<k2, k1>> \in st.names
        key == IF swapped THEN <<k2, k1, i2, i1>> ELSE <<k1, k2, i1, i2>>
        \* _getalm: the entry of the first part of the name, with its metadata
        md == ClMetadata(AlmMetadata(Head(key[1]), key[3], in.biased),
                         AlmMetadata(Head(key[2]), key[4], in.biased),
                         key[1] = key[2] /\ key[3] = key[4])
    IN  IF <<k1, k2, i1, i2>> \in DOMAIN st.cls \/ <<k2, k1, i2, i1>> \in DOMAIN st.cls
        THEN st
        ELSE IF ~TocMatch(key, in.include, in.exclude)
        THEN st
        ELSE [cls |-> (key :> [md |-> md, debiased |-> in.debias /\ "bias" \in DOMAIN md])
                         @@ st.cls,
              names |-> st.names \cup {<<key[1], key[2]>>}]

\* the state after the first n pairs
RECURSIVE ApsRun(_, _, _)
ApsRun(pairs, n, in) ==
    IF n = 0 THEN [cls |-> <<>>, names |-> {}]
    ELSE ApsStep(ApsRun(pairs, n - 1, in), pairs[n], in)

ApsInit ==
    /\ KeyIdle
    /\ FitsIdle
    /\ HeapIdle
    /\ MixIdle
    /\ BinIdle
    /\ DebiasIdle
    /\ SchedIdle /\ FieldIdle /\ PosIdle /\ MapsIdle /\ ClIdle
    /\ ain \in [order : AlmOrders, given2 : BOOLEAN, include : ApsFilters,
                exclude : ApsFilters, debias : BOOLEAN, biased : SUBSET {"P", "G"}]
    /\ apc = "pairs"
    /\ ai = 1
    /\ acls = <<>>
    /\ anames = {}

\* One iteration of the loop over the pairs, or the return after the last.
ApsLoop ==
    /\ apc = "pairs"
    /\ LET pairs == ApsPairs(ain.order, ain.given2)
       IN  IF ai > Len(pairs)
           THEN /\ apc' = "done"
                /\ UNCHANGED <<ai, acls, anames>>
           ELSE LET st == ApsStep([cls |-> acls, names |-> anames], pairs[ai], ain)
                IN  /\ acls' = st.cls
                    /\ anames' = st.names
                    /\ ai' = ai + 1
                    /\ UNCHANGED apc
    /\ UNCHANGED ain
    /\ UNCHANGED nonApsVars

ApsNext == ApsLoop

SpecAps == ApsInit /\ [][ApsNext]_vars

(***************************************************************************)
(* Claims about angular_power_spectra (SpecAps)                            *)
(***************************************************************************)

\* the keys of the call with the same coefficients, no second set and no
\* filters
UnfilteredKeys ==
    LET pairs == ApsPairs(ain.order, FALSE)
    IN  DOMAIN ApsRun(pairs, Len(pairs),
                      [ain EXCEPT !.include = NoFilter, !.exclude = NoFilter]).cls

\* C15: without filters the result has, for every two flattened keys
\* (k1, i1) and (k2, i2), one of the keys (k1, k2, i1, i2), (k2, k1, i2, i1)
\* and not both; it never has both a key (a, b, ., .) and a key (b, a, ., .)
\* for names a # b; and with the second set given explicitly the keys are
\* those of the call without it.
C15_OneKeyPerPair ==
    (apc = "done" /\ ain.include = NoFilter /\ ain.exclude = NoFilter) =>
        LET keys == Range(AlmKeys(ain.order))
        IN  /\ \A x \in keys : \A y \in keys :
                  LET a == <<x[1], y[1], x[2], y[2]>>
                      b == <<y[1], x[1], y[2], x[2]>>
                  IN  /\ a \in DOMAIN acls \/ b \in DOMAIN acls
                      /\ a # b => ~(a \in DOMAIN acls /\ b \in DOMAIN acls)
            /\ \A a \in DOMAIN acls : \A b \in DOMAIN acls :
                  (a[1] # a[2]) => ~(b[1] = a[2] /\ b[2] = a[1])
            /\ DOMAIN acls = UnfilteredKeys

C15_Witness ==
    /\ apc = "done" /\ ain.include = NoFilter /\ ain.exclude = NoFilter /\ ain.given2
    /\ Len(ain.order) = 4 /\ ain.order[2] = <<"G", 0>>
    /\ Cardinality(DOMAIN acls) = 21
    /\ << <<"P">>, <<"G", "B">>, 1, 0 >> \in DOMAIN acls

\* C16 as stated: for any include and exclude patterns the keys returned
\* are the keys of the unfiltered result that match the filters.
C16_FilteredKeys ==
    apc = "done" =>
        DOMAIN acls = {key \in UnfilteredKeys : TocMatch(key, ain.include, ain.exclude)}

\* the metadata entries of the side with flattened name k and bin i,
\* suffixed, without the bias
SideEntries(k, i, sfx) ==
    LET md == AlmMetadata(Head(k), i, ain.biased)
    IN  {<<n \o sfx, md[n]>> : n \in DOMAIN md \ {"bias"}}

\* C17: every spectrum has each metadata entry of its side 1 and side 2
\* other than bias under the name suffixed _1 and _2; it has an unsuffixed
\* bias, and is debiased when debias is requested, exactly when its two
\* flattened keys have the same name and the same bin and the coefficients
\* of side 1 have a bias; it has no other entries.
C17_MetadataAndBias ==
    \A key \in DOMAIN acls :
        LET md == acls[key].md
            auto == key[1] = key[2] /\ key[3] = key[4]
            bias1 == "bias" \in DOMAIN AlmMetadata(Head(key[1]), key[3], ain.biased)
        IN  /\ {<<n, md[n]>> : n \in DOMAIN md \ {"bias"}}
                  = SideEntries(key[1], key[3], "_1") \cup SideEntries(key[2], key[4], "_2")
            /\ "bias" \in DOMAIN md <=> (auto /\ bias1)
            /\ "bias" \in DOMAIN md
                  => md["bias"] = AlmMetadata(Head(key[1]), key[3], ain.biased)["bias"]
            /\ acls[key].debiased <=> (ain.debias /\ auto /\ bias1)

C17_Witness ==
    /\ apc = "done" /\ ain.debias /\ ain.biased = {"P", "G"}
    /\ \E a \in DOMAIN acls : \E b \in DOMAIN acls : \E c \in DOMAIN acls :
          /\ a[1] = <<"G", "E">> /\ a[2] = <<"G", "E">> /\ a[3] = a[4] /\ acls[a].debiased
          /\ acls[a].md["spin_1"] = 2 /\ acls[a].md["bias"] = 3 + a[3]
          /\ b[1] = <<"G", "E">> /\ b[2] = <<"G", "B">> /\ b[3] = b[4] /\ ~acls[b].debiased
          /\ c[1] = <<"P">> /\ c[2] = <<"P">> /\ c[3] # c[4] /\ "bias" \notin DOMAIN acls[c].md

(***************************************************************************)
(* twopoint.py debias_cls and _debias_cl for a mapping with one plain      *)
(* spectrum.  An optional metadata entry is a set with no or one element.  *)
(* hp.pixwin is given by a table of its values for the one nside.          *)
(***************************************************************************)
MaxClModes == 4

\* the spectrum before the call
ClBefore(len) == [n \in 1..len |-> R(10 + n)]

\* metadata of the spectrum: spin_i, kernel_i, nside_i, deconv_i and bias
DebiasSides ==
    [spin : {{}, {0}, {2}, {-2}}, kernel : {{}, {"healpix"}}, nside : {{}, {64}},
     deconv : {{}, {TRUE}, {FALSE}}]

\* the bias argument: None, an empty mapping, a mapping without the key, or
\* a mapping with a value for the key
BiasArgs == {"None", "empty", "other", "value"}

\* md.get(name, default)
MdGet(entry, default) == IF entry = {} THEN default ELSE CHOOSE v \in entry : TRUE

\* hp.pixwin(nside, lmax=lmax, pol=False) and hp.pixwin(..., pol=True)[1] at mode l
PixWin(pol, l) == IF pol THEN Norm(10 - l, 20) ELSE Norm(10 - l, 10)

\* the divisor of side i at mode l, one if the side is not deconvolved
SideWindowAlways(side, l) ==
    IF MdGet(side.spin, 0) = 0 THEN PixWin(FALSE, l)
    ELSE IF MdGet(side.spin, 0) = 2 THEN PixWin(TRUE, l) ELSE R(1)

SideWindow(side, l) ==
    IF side.kernel = {"healpix"} /\ side.nside # {} /\ MdGet(side.deconv, TRUE)
    THEN (IF MdGet(side.spin, 0) = 0 THEN PixWin(FALSE, l)
          ELSE IF MdGet(side.spin, 0) = 2 THEN PixWin(TRUE, l) ELSE R(1))
    ELSE R(1)

\* lmin = max(abs(spin1), abs(spin2)), from the first mode on
Lmin(md) ==
    LET a == Abs(MdGet(md.side1.spin, 0))
        b == Abs(MdGet(md.side2.spin, 0))
    IN  IF a > b THEN a ELSE b

\* bl
DebiasBl(bias, md, len) ==
    [n \in 1..len |->
        IF n - 1 < Lmin(md) THEN R(0)
        ELSE RDiv(RDiv(R(bias), SideWindow(md.side1, n - 1)), SideWindow(md.side2, n - 1))]

\* bias and bias.get(key), then the bias of the metadata if that is None:
\* a number, None, or the empty mapping itself
BiasUsed(arg, md) ==
    IF arg = "value" THEN [kind |-> "number", val |-> 7]
    ELSE IF arg = "empty" THEN [kind |-> "mapping", val |-> 0]
    ELSE IF md.bias = {} THEN [kind |-> "None", val |-> 0]
    ELSE [kind |-> "number", val |-> MdGet(md.bias, 0)]

\* _debias_cl: the spectrum returned, or the exception
DebiasCl(cl, arg, md) ==
    LET bias == BiasUsed(arg, md)
    IN  IF bias.kind = "None" THEN [err |-> "none", cl |-> cl]
        ELSE IF bias.kind = "mapping" THEN [err |-> "TypeError", cl |-> cl]
        ELSE LET bl == DebiasBl(bias.val, md, Len(cl))
             IN  [err |-> "none", cl |-> [n \in 1..Len(cl) |-> RSub(cl[n], bl[n])]]

\* _debias_cl that always works on the array it is given
DebiasTargetGiven(arrays, inplace) == [arrays |-> arrays, id |-> 1]

\* lines 113-115: the array _debias_cl works on, the array given if inplace,
\* else a copy of it with its metadata
DebiasTarget(arrays, inplace) ==
    IF inplace THEN [arrays |-> arrays, id |-> 1]
    ELSE [arrays |-> Append(arrays, [val |-> arrays[1].val,
                                     md |-> update_metadata(arrays[1].md, arrays[1].md)]),
          id |-> Len(arrays) + 1]

DebiasInit ==
    /\ KeyIdle
    /\ FitsIdle
    /\ HeapIdle
    /\ MixIdle
    /\ BinIdle
    /\ SchedIdle /\ FieldIdle /\ PosIdle /\ MapsIdle /\ ClIdle /\ ApsIdle
    /\ din \in [len : 1..MaxClModes, arg : BiasArgs, inplace : BOOLEAN,
                md : [side1 : DebiasSides, side2 : DebiasSides, bias : {{}, {5}}]]
    /\ dpc = "call"
    /\ dcl = ClBefore(din.len)
    /\ dout = <<>>
    /\ derr = "none"
    /\ dheap = [arrays |-> <<[val |-> ClBefore(din.len), md |-> din.md]>>,
                cls |-> 1, outmap |-> "none", out |-> 0]

\* The iteration of the loop of debias_cls for the spectrum; out was set to
\* cls or to a new TocDict before the loop.
DebiasKey ==
    /\ dpc = "call"
    /\ LET r == DebiasCl(dcl, din.arg, din.md)
           t == DebiasTarget(dheap.arrays, din.inplace)
           outmap == IF din.inplace THEN "cls" ELSE "TocDict"
       IN  IF r.err # "none"
           THEN /\ dpc' = "failed"
                /\ derr' = r.err
                /\ dheap' = [dheap EXCEPT !.arrays = t.arrays, !.outmap = outmap]
                /\ UNCHANGED <<dcl, dout>>
           ELSE /\ dpc' = "return"
                /\ dout' = r.cl
                /\ dcl' = (IF din.inplace THEN r.cl ELSE dcl)
                /\ dheap' = [arrays |-> [t.arrays EXCEPT ![t.id].val = r.cl],
                             cls |-> IF outmap = "cls" THEN t.id ELSE dheap.cls,
                             outmap |-> outmap,
                             out |-> t.id]
                /\ UNCHANGED derr
    /\ UNCHANGED din
    /\ UNCHANGED nonDebiasVars

\* debias_cls returns the mapping.
DebiasReturn ==
    /\ dpc = "return"
    /\ dpc' = "done"
    /\ UNCHANGED <<din, dcl, dout, derr, dheap>>
    /\ UNCHANGED nonDebiasVars

DebiasNext == DebiasKey \/ DebiasReturn

SpecDebias == DebiasInit /\ [][DebiasNext]_vars

(***************************************************************************)
(* Claims about debiasing (SpecDebias)                                     *)
(***************************************************************************)

\* the window of a side that is deconvolved, by the conditions of the claim
ClaimedWindow(side, l) ==
    LET spin == IF side.spin = {} THEN 0 ELSE CHOOSE v \in side.spin : TRUE
    IN  IF /\ side.kernel = {"healpix"} /\ side.nside # {} /\ side.deconv # {FALSE}
           /\ spin \in {0, 2}
        THEN PixWin(spin = 2, l) ELSE R(1)

\* the minimum mode of the claim
ClaimedLmin ==
    LET spin(side) == IF side.spin = {} THEN 0 ELSE CHOOSE v \in side.spin : TRUE
    IN  CHOOSE a \in 0..2 :
            /\ a \in {Abs(spin(din.md.side1)), Abs(spin(din.md.side2))}
            /\ a >= Abs(spin(din.md.side1)) /\ a >= Abs(spin(din.md.side2))

\* C18 as stated: debiasing never fails; the bias is the value supplied for
\* the key when there is one, else the bias of the metadata; with neither
\* the spectrum is unchanged; else every mode below max(|spin_1|, |spin_2|)
\* is unchanged and every mode from there on is lowered by the bias (over
\* the windows of C19).
C18_DebiasFromLmin ==
    /\ dpc # "failed"
    /\ dpc = "done" =>
          LET bias == IF din.arg = "value" THEN {7} ELSE din.md.bias
          IN  \A n \in 1..din.len :
                 IF bias = {} \/ n - 1 < ClaimedLmin
                 THEN dout[n] = ClBefore(din.len)[n]
                 ELSE dout[n] = RSub(ClBefore(din.len)[n],
                                    RDiv(RDiv(R(CHOOSE v \in bias : TRUE),
                                              ClaimedWindow(din.md.side1, n - 1)),
                                         ClaimedWindow(din.md.side2, n - 1)))

\* C19: what _debias_cl subtracts at a mode l at or above the minimum mode
\* is the bias divided by the window at l once for each side with kernel
\* healpix, an nside, deconv not disabled and spin 0 (scalar window) or 2
\* (polarization window); other sides divide by nothing, so with deconv
\* disabled on both sides the bias itself is subtracted.
C19_WindowPerSide ==
    (dpc \in {"return", "done"} /\ BiasUsed(din.arg, din.md).kind = "number") =>
        \A n \in 1..din.len :
            (n - 1 >= ClaimedLmin) =>
                /\ RSub(ClBefore(din.len)[n], dout[n])
                      = RDiv(RDiv(R(BiasUsed(din.arg, din.md).val),
                                  ClaimedWindow(din.md.side1, n - 1)),
                             ClaimedWindow(din.md.side2, n - 1))
                /\ (din.md.side1.deconv = {FALSE} /\ din.md.side2.deconv = {FALSE})
                      => RSub(ClBefore(din.len)[n], dout[n])
                            = R(BiasUsed(din.arg, din.md).val)

C19_Witness ==
    /\ dpc = "done" /\ din.len = 4 /\ din.arg = "value"
    /\ din.md.side1.spin = {} /\ din.md.side1.kernel = {"healpix"}
    /\ din.md.side1.nside = {64} /\ din.md.side1.deconv = {}
    /\ din.md.side2.spin = {2} /\ din.md.side2.kernel = {"healpix"}
    /\ din.md.side2.nside = {64} /\ din.md.side2.deconv = {TRUE}
    /\ dout[1] = ClBefore(4)[1] /\ dout[2] = ClBefore(4)[2]
    /\ RSub(ClBefore(4)[3], dout[3]) = RDiv(RDiv(R(7), PixWin(FALSE, 2)), PixWin(TRUE, 2))
    /\ RSub(ClBefore(4)[3], dout[3]) # R(7)

(***************************************************************************)
(* bin2pt (twopoint.py): binned two-point data                             *)
(***************************************************************************)

MaxBinModes == 4
MaxBinEdge == 4

\* the data arr of the test: n modes, with one trailing dimension of BinDims
\* entries, value of mode l at trailing index j
BinSeeds == {0, 1}
BinDims(multi) == IF multi THEN 2 ELSE 1
BinData(seed, l, j) == ((seed + l * j + l) % 4) - 1

\* the increasing sequences of bin edges
BinEdges ==
    {e \in UNION {[1..k -> 0..MaxBinEdge] : k \in 1..(MaxBinEdge + 1)} :
        \A i \in 1..(Len(e) - 1) : e[i] < e[i + 1]}

\* the argument weights: None, a string, or an array of n + 1 weights
BinWeights(n) ==
    {[kind |-> k, arr |-> <<>>] : k \in {"None", "l(l+1)", "2l+1", "l"}}
        \cup {[kind |-> "array", arr |-> a] : a \in [1..(n + 1) -> WeightValues]}

\* norm(a, b): divide a by b if a is nonzero
BinNorm(a, b) == IF a # 0 THEN Norm(a, b) ELSE R(0)

\* np.digitize(ell, bins) of increasing bins with the closed edge on the right
DigitizeRight(x, bins) == Cardinality({i \in 1..Len(bins) : bins[i] < x})

\* np.digitize(ell, bins) of increasing bins: i with bins[i-1] <= x < bins[i]
Digitize(x, bins) == Cardinality({i \in 1..Len(bins) : bins[i] <= x})

\* np.bincount(i, weights, m)[1:m], entry j
BinCount(f, n, bins, j) ==
    SumOver([l \in 0..(n - 1) |-> f[l]], {l \in 0..(n - 1) : Digitize(l, bins) = j})

BinInit ==
    /\ KeyIdle
    /\ FitsIdle
    /\ HeapIdle
    /\ MixIdle
    /\ SchedIdle /\ FieldIdle /\ PosIdle /\ MapsIdle /\ ClIdle /\ ApsIdle /\ DebiasIdle
    /\ \E n \in 0..MaxBinModes :
          bin_in \in [n : {n}, seed : BinSeeds, multi : BOOLEAN, bins : BinEdges,
                      weights : BinWeights(n)]
    /\ bpc = "call"
    /\ bw = <<>>
    /\ binned = <<>>
    /\ berr = "none"

\* weights from string or given array
BinSetWeights ==
    /\ bpc = "call"
    /\ LET n == bin_in.n
           wt == bin_in.weights
       IN  IF wt.kind \notin {"None", "l(l+1)", "2l+1", "array"}
           THEN /\ bpc' = "failed"
                /\ berr' = "ValueError"
                /\ UNCHANGED bw
           ELSE /\ bpc' = "bin"
                /\ bw' = [p \in 1..n |->
                            LET ell == p - 1
                            IN  CASE wt.kind = "None" -> 1
                                  [] wt.kind = "l(l+1)" -> ell * (ell + 1)
                                  [] wt.kind = "2l+1" -> 2 * ell + 1
                                  [] OTHER -> wt.arr[p]]
                /\ UNCHANGED berr
    /\ UNCHANGED <<bin_in, binned>>
    /\ UNCHANGED nonBinVars

\* The structured output array is created and filled, and returned.
BinFill ==
    /\ bpc = "bin"
    /\ LET n == bin_in.n
           bins == bin_in.bins
           m == Len(bins)
           w == [l \in 0..(n - 1) |-> bw[l + 1]]
           wb == [j \in 1..(m - 1) |-> BinCount(w, n, bins, j)]
           wl == [l \in 0..(n - 1) |-> w[l] * l]
           wx(x) == [l \in 0..(n - 1) |-> w[l] * BinData(bin_in.seed, l, x)]
       IN  binned' = [j \in 1..(m - 1) |->
                        [L |-> BinNorm(BinCount(wl, n, bins, j), wb[j]),
                         X |-> [x \in 1..BinDims(bin_in.multi) |->
                                  BinNorm(BinCount(wx(x), n, bins, j), wb[j])],
                         LMIN |-> bins[j],
                         LMAX |-> bins[j + 1],
                         W |-> wb[j]]]
    /\ bpc' = "done"
    /\ UNCHANGED <<bin_in, bw, berr>>
    /\ UNCHANGED nonBinVars

BinNext == BinSetWeights \/ BinFill

SpecBin == BinInit /\ [][BinNext]_vars

(***************************************************************************)
(* Claims about binning (SpecBin)                                          *)
(***************************************************************************)

\* the weight of mode l in the scheme of the call
SchemeWeight(l) ==
    CASE bin_in.weights.kind = "None" -> 1
      [] bin_in.weights.kind = "l(l+1)" -> l * (l + 1)
      [] bin_in.weights.kind = "2l+1" -> 2 * l + 1
      [] OTHER -> bin_in.weights.arr[l + 1]

\* the modes of the data that bin j covers
ModesOfBin(j) ==
    {l \in 0..(bin_in.n - 1) : bin_in.bins[j] <= l /\ l < bin_in.bins[j + 1]}

\* the mean of f over the modes S weighted by the scheme, zero for zero total weight
SchemeMean(f, S) ==
    LET tot == SumOver([l \in S |-> SchemeWeight(l)], S)
    IN  IF tot = 0 THEN R(0)
        ELSE Norm(SumOver([l \in S |-> SchemeWeight(l) * f[l]], S), tot)

MaxCls == 2

\* the keys of the mapping fields, in its order, and the fields they can name
MixFieldOrder == <<"A", "B">>
MixFields == [{"A", "B"} -> [mask : {"None", "V", "W"}, spin : {0, 2}]]

\* the keys of the spectra of the masks; no field has the mask X
MixKeys ==
    ({"V", "W"} \X {"V", "W"} \X {0, 1} \X {0, 1})
        \cup {<<"X", "V", 0, 0>>, <<"V", "X", 0, 0>>}

\* the mappings cls, as the sequence of their keys
MixCls ==
    {c \in UNION {[1..k -> MixKeys] : k \in 0..MaxCls} :
        \A i, j \in 1..Len(c) : i # j => c[i] # c[j]}

\* masks[k]: the keys of the fields of mask k in the order of fields
MasksOf(fields, k) == SelectSeq(MixFieldOrder, LAMBDA f : fields[f].mask = k)

\* product(fields1, fields2)
RECURSIVE Product(_, _)
Product(s, t) ==
    IF s = <<>> THEN <<>>
    ELSE [i \in 1..Len(t) |-> <<s[1], t[i]>>] \o Product(Tail(s), t)

\* the check of done without the symmetric combination
AlreadyDoneSameOnly(done, f1, f2, i1, i2) == <<f1, f2, i1, i2>> \in done

\* (f1, f2, i1, i2) in done or (f2, f1, i2, i1) in done
AlreadyDone(done, f1, f2, i1, i2) ==
    <<f1, f2, i1, i2>> \in done \/ <<f2, f1, i2, i1>> \in done

\* the body of the loop over product(fields1, fields2) with every field of
\* nonzero spin through the routine for E and B
MixPairAlwaysEB(st, fields, f1, f2, i1, i2) ==
    IF AlreadyDone(st.done, f1, f2, i1, i2) THEN st
    ELSE LET n == Len(st.calls) + 1
         IN  [done |-> st.done \cup {<<f1, f2, i1, i2>>},
              calls |-> Append(st.calls, [routine |-> "mixmat_eb",
                                          spin |-> <<fields[f1].spin, fields[f2].spin>>,
                                          key |-> <<f1, f2, i1, i2>>]),
              out |-> (<<f1 \o "_E", f2 \o "_E", i1, i2>> :> [call |-> n, part |-> "ee"])
                      @@ (<<f1 \o "_B", f2 \o "_B", i1, i2>> :> [call |-> n, part |-> "bb"])
                      @@ (<<f1 \o "_E", f2 \o "_B", i1, i2>> :> [call |-> n, part |-> "eb"])
                      @@ st.out]

\* the body of the loop over product(fields1, fields2)
MixPair(st, fields, f1, f2, i1, i2) ==
    IF AlreadyDone(st.done, f1, f2, i1, i2) THEN st
    ELSE LET spin1 == fields[f1].spin
             spin2 == fields[f2].spin
             n == Len(st.calls) + 1
             done == st.done \cup {<<f1, f2, i1, i2>>}
         IN  IF spin1 = 0 \/ spin2 = 0
             THEN LET name1 == IF spin1 = 0 THEN f1 ELSE f1 \o "_E"
                      name2 == IF spin2 = 0 THEN f2 ELSE f2 \o "_E"
                  IN  [done |-> done,
                       calls |-> Append(st.calls, [routine |-> "mixmat",
                                                   spin |-> <<spin1, spin2>>,
                                                   key |-> <<f1, f2, i1, i2>>]),
                       out |-> (<<name1, name2, i1, i2>> :> [call |-> n, part |-> "mm"])
                               @@ st.out]
             ELSE [done |-> done,
                   calls |-> Append(st.calls, [routine |-> "mixmat_eb",
                                               spin |-> <<spin1, spin2>>,
                                               key |-> <<f1, f2, i1, i2>>]),
                   out |-> (<<f1 \o "_E", f2 \o "_E", i1, i2>> :> [call |-> n, part |-> "ee"])
                           @@ (<<f1 \o "_B", f2 \o "_B", i1, i2>> :> [call |-> n, part |-> "bb"])
                           @@ (<<f1 \o "_E", f2 \o "_B", i1, i2>> :> [call |-> n, part |-> "eb"])
                           @@ st.out]

\* the loop over product(fields1, fields2) for one spectrum
RECURSIVE MixPairs(_, _, _, _, _)
MixPairs(st, fields, pairs, i1, i2) ==
    IF pairs = <<>> THEN st
    ELSE MixPairs(MixPair(st, fields, pairs[1][1], pairs[1][2], i1, i2),
                  fields, Tail(pairs), i1, i2)

MixInit ==
    /\ KeyIdle
    /\ FitsIdle
    /\ HeapIdle
    /\ SchedIdle /\ FieldIdle /\ PosIdle /\ MapsIdle /\ ClIdle /\ ApsIdle /\ DebiasIdle
    /\ BinIdle
    /\ xin \in [fields : MixFields, cls : MixCls]
    /\ xpc = "loop"
    /\ xi = 1
    /\ xdone = {}
    /\ xout = <<>>
    /\ xcalls = <<>>

\* One iteration of the loop over the items of cls.
MixLoop ==
    /\ xpc = "loop"
    /\ xi <= Len(xin.cls)
    /\ LET key == xin.cls[xi]
           fields1 == MasksOf(xin.fields, key[1])
           fields2 == MasksOf(xin.fields, key[2])
           st == [done |-> xdone, calls |-> xcalls, out |-> xout]
           r == IF fields1 = <<>> \/ fields2 = <<>> THEN st
                ELSE MixPairs(st, xin.fields, Product(fields1, fields2), key[3], key[4])
       IN  /\ xdone' = r.done
           /\ xcalls' = r.calls
           /\ xout' = r.out
    /\ xi' = xi + 1
    /\ UNCHANGED <<xin, xpc>>
    /\ UNCHANGED nonMixVars

\* The loop is over and out is returned.
MixReturn ==
    /\ xpc = "loop"
    /\ xi > Len(xin.cls)
    /\ xpc' = "done"
    /\ UNCHANGED <<xin, xi, xdone, xout, xcalls>>
    /\ UNCHANGED nonMixVars

MixNext == MixLoop \/ MixReturn

SpecMix == MixInit /\ [][MixNext]_vars

(***************************************************************************)
(* Claims about the mixing matrices (SpecMix)                              *)
(***************************************************************************)

\* the combinations (f1, f2, i1, i2) of the call: a spectrum (m1, m2, i1, i2)
\* of cls and fields f1 of mask m1 and f2 of mask m2
MixRequested ==
    {<<f1, f2, xin.cls[n][3], xin.cls[n][4]>> :
        n \in 1..Len(xin.cls), f1 \in {"A", "B"}, f2 \in {"A", "B"}}
    \cap {c \in {"A", "B"} \X {"A", "B"} \X {0, 1} \X {0, 1} :
            \E n \in 1..Len(xin.cls) :
                /\ xin.fields[c[1]].mask = xin.cls[n][1]
                /\ xin.fields[c[2]].mask = xin.cls[n][2]
                /\ c[3] = xin.cls[n][3] /\ c[4] = xin.cls[n][4]}

SymmetricOf(c) == <<c[2], c[1], c[4], c[3]>>

\* the keys and parts under which the matrices of a combination are stored
MixEntries(c) ==
    LET spin1 == xin.fields[c[1]].spin
        spin2 == xin.fields[c[2]].spin
        E(f) == f \o "_E"
        B(f) == f \o "_B"
    IN  IF spin1 = 0 \/ spin2 = 0
        THEN {[key |-> <<IF spin1 = 0 THEN c[1] ELSE E(c[1]),
                         IF spin2 = 0 THEN c[2] ELSE E(c[2]), c[3], c[4]>>,
               part |-> "mm"]}
        ELSE {[key |-> <<E(c[1]), E(c[2]), c[3], c[4]>>, part |-> "ee"],
              [key |-> <<B(c[1]), B(c[2]), c[3], c[4]>>, part |-> "bb"],
              [key |-> <<E(c[1]), B(c[2]), c[3], c[4]>>, part |-> "eb"]}

MixCallsOf(c) == {n \in 1..Len(xcalls) : xcalls[n].key = c}

\* one call of the routine for the spins of the combination, and its matrices
\* stored under the keys of the combination
MixComputed(c) ==
    /\ Cardinality(MixCallsOf(c)) = 1
    /\ \A n \in MixCallsOf(c) :
          /\ xcalls[n].routine =
                (IF xin.fields[c[1]].spin = 0 \/ xin.fields[c[2]].spin = 0
                 THEN "mixmat" ELSE "mixmat_eb")
          /\ xcalls[n].spin = <<xin.fields[c[1]].spin, xin.fields[c[2]].spin>>
          /\ \A e \in MixEntries(c) :
                e.key \in DOMAIN xout /\ xout[e.key] = [call |-> n, part |-> e.part]

MixAbsent(c) ==
    MixCallsOf(c) = {} /\ \A e \in MixEntries(c) : e.key \notin DOMAIN xout

\* C21 as stated: for each spectrum (m1, m2, i1, i2) and each pair of fields
\* (f1, f2) of masks m1 and m2, one call of the scalar routine and one matrix
\* under (f1 or f1_E, f2 or f2_E, i1, i2) if a spin is zero, one call of the
\* E/B routine and the matrices EE, BB, EB under (f1_E, f2_E), (f1_B, f2_B),
\* (f1_E, f2_B) if no spin is zero; nothing else is in the result.
C21_EveryPairStored ==
    xpc = "done" =>
        /\ \A c \in MixRequested : MixComputed(c)
        /\ DOMAIN xout = {e.key : e \in UNION {MixEntries(c) : c \in MixRequested}}

\* C21 amended: the same for each combination whose symmetric duplicate
\* (f2, f1, i2, i1) is not a combination of the call too; of a combination and
\* its distinct symmetric duplicate exactly one has its matrices computed and
\* stored, and the other has no call and no entry.
C21_PairStoredUnlessSymmetric ==
    xpc = "done" =>
        /\ \A c \in MixRequested :
              IF SymmetricOf(c) \in MixRequested /\ SymmetricOf(c) # c
              THEN \/ MixComputed(c) /\ MixAbsent(SymmetricOf(c))
                   \/ MixAbsent(c) /\ MixComputed(SymmetricOf(c))
              ELSE MixComputed(c)
        /\ DOMAIN xout =
              {e.key : e \in UNION {MixEntries(c) :
                                     c \in {d \in MixRequested : MixCallsOf(d) # {}}}}
        /\ \A n \in 1..Len(xcalls) : xcalls[n].key \in MixRequested

\* fields A (spin 0) and B (spin 2) of mask V, a spectrum (V, V, 0, 1) and a
\* spectrum of an unnamed mask: four combinations computed, one by mixmat_eb
C21_Witness ==
    /\ xpc = "done"
    /\ xin.fields = [f \in {"A", "B"} |-> [mask |-> "V", spin |-> IF f = "A" THEN 0 ELSE 2]]
    /\ xin.cls = << <<"X", "V", 0, 0>>, <<"V", "V", 0, 1>> >>
    /\ Len(xcalls) = 4
    /\ xout[<<"A", "B_E", 0, 1>>].part = "mm"
    /\ xout[<<"B_E", "B_B", 0, 1>>].part = "eb"

\* C22: in one call of mixing_matrices no combination (f1, f2, i1, i2) is
\* passed to a convolution routine more than once, and of a combination and its
\* symmetric duplicate (f2, f1, i2, i1) at most one is passed.
C22_SymmetricOnce ==
    \A p, q \in 1..Len(xcalls) :
        p # q => /\ xcalls[p].key # xcalls[q].key
                 /\ xcalls[p].key # SymmetricOf(xcalls[q].key)

\* the spectra (V, W, 0, 1) and (W, V, 1, 0) name the same combinations of the
\* fields A of mask V and B of mask W: one call
C22_Witness ==
    /\ xpc = "done"
    /\ xin.cls = << <<"V", "W", 0, 1>>, <<"W", "V", 1, 0>> >>
    /\ xin.fields["A"].mask = "V" /\ xin.fields["B"].mask = "W"
    /\ Len(xcalls) = 1
    /\ xcalls[1].key = <<"A", "B", 0, 1>>

(***************************************************************************)
(* Claims about the suspensions and the page feed (SpecSched)              *)
(***************************************************************************)

\* C26: an aggregation that iterates a catalogue of P pages through _pages
\* suspends P + 1 times: once for each page, before the page is processed,
\* and once more after the last page; with no pages it suspends once before
\* it finishes.
C26_SuspendsPerPageAndOnceMore ==
    impl = "fields" =>
        \A key \in Keys :
            kind[key[1]] = "paged" =>
                LET P == cat[key[2]].avail
                IN  CASE co[key] = "page" ->
                            tally.sleeps[key] = consumed[key] + 1 /\ consumed[key] < P
                      [] co[key] \in {"final", "done"} ->
                            tally.sleeps[key] = P + 1 /\ consumed[key] = P
                      [] OTHER -> tally.sleeps[key] = 0

\* the call has returned, one aggregation had no pages and one had two or more
C26_Witness ==
    /\ impl = "fields" /\ pc = "done"
    /\ \E key \in Keys :
          /\ kind[key[1]] = "paged" /\ co[key] = "done"
          /\ cat[key[2]].avail = 0 /\ tally.sleeps[key] = 1
    /\ \E key \in Keys :
          /\ kind[key[1]] = "paged" /\ co[key] = "done"
          /\ cat[key[2]].avail >= 2 /\ tally.sleeps[key] = cat[key[2]].avail + 1

\* the groups with a generator, and the pages the driver draws from a catalogue
GroupHasGen(g) == \E key \in Range(Passing(Groups[g])) : IsGen(key)
DriverPages(i) == NumPages(cat[i].size, cat[i].page_size)

\* C29: in maps.map_catalogs, in a group with generators the iterator of each
\* catalogue is created once and advanced ceil(size / page_size) times, however
\* many maps there are; every generator receives each page of its catalogue
\* once, in the order of the catalogue, and is then resumed to finalize, once
\* and only after the last page.  The call fails only if an iterator ends
\* before its pages were drawn.
C29_PagesOnceThenFinalize ==
    impl = "maps" =>
        /\ \A i \in Cats : tally.iters[i] <= 1 /\ drawn[i] <= DriverPages(i)
        /\ \A key \in Keys :
              /\ Len(tally.fed[key]) <= DriverPages(key[2])
              /\ \A n \in 1..Len(tally.fed[key]) : tally.fed[key][n] = n
              /\ tally.finals[key] <= 1
              /\ tally.finals[key] = 1 => Len(tally.fed[key]) = DriverPages(key[2])
        /\ pc = "failed" =>
              \E i \in Range(CurGroup) : cat[i].avail < DriverPages(i)
        /\ pc = "done" =>
              /\ \A g \in 1..Len(Groups) : \A i \in Range(Groups[g]) :
                    IF GroupHasGen(g)
                    THEN tally.iters[i] = 1 /\ drawn[i] = DriverPages(i)
                    ELSE tally.iters[i] = 0 /\ drawn[i] = 0
              /\ \A key \in Keys :
                    tally.finals[key] = (IF key \in PassKeys /\ IsGen(key) THEN 1 ELSE 0)

(***************************************************************************)
(* CatalogPage (catalog/base.py): pages as objects that share arrays, and  *)
(* the driver of maps.map_catalogs that hands a copy of its page to every  *)
(* aggregation                                                             *)
(***************************************************************************)

MaxRows == 2
MaxPageObjects == 3
MaxArrays == 6

\* the driver of map_catalogs and the aggregations it feeds
Aggregations == {"k1", "k2"}
Actors == Aggregations \cup {"driver"}

Columns == {"ra", "w"}

\* the column data a page is constructed from: row numbers, and weights for
\* as many rows or for one row less
PageData ==
    {d \in {[ra |-> [n \in 1..a |-> n], w |-> w] :
              a \in 0..MaxRows, w \in UNION {[1..b -> {0, 1}] : b \in 0..MaxRows}} :
        Len(d.w) \in {Len(d.ra), Len(d.ra) - 1}}

\* the arguments of delete for a page of n rows: any rows of the page, or a
\* row number beyond its rows
DeleteArgs(n) == (SUBSET (1..n)) \cup {{n + 1}}

\* the rows of the columns of a page object
ColumnsOf(arr, tab, obj, p) == [c \in Columns |-> arr[tab[obj[p].data][c]]]

\* CatalogPage._update without the check of the lengths
UpdatedSizeUnchecked(lens) == lens["ra"]

\* CatalogPage._update: -1 is the ValueError for inconsistent row length
UpdatedSize(lens) ==
    IF \E c, d \in DOMAIN lens : lens[c] # lens[d] THEN -1
    ELSE lens[CHOOSE c \in DOMAIN lens : TRUE]

\* np.delete(rows, where) for a set of row numbers
NpDelete(rows, where) == SelectSeq([n \in 1..Len(rows) |-> <<n, rows[n]>>],
                                   LAMBDA x : x[1] \notin where)

\* the rows of NpDelete without their numbers
Deleted(rows, where) ==
    LET kept == NpDelete(rows, where) IN [n \in 1..Len(kept) |-> kept[n][2]]

\* CatalogPage.copy that hands out the page itself
PageCopySame(tab, obj, p) == [tab |-> tab, obj |-> obj, id |-> p]

\* CatalogPage.copy: a new page with a new table of the same arrays
PageCopy(tab, obj, p) ==
    [tab |-> Append(tab, tab[obj[p].data]),
     obj |-> Append(obj, [data |-> Len(tab) + 1, size |-> obj[p].size]),
     id |-> Len(obj) + 1]

HeapInit ==
    /\ KeyIdle
    /\ FitsIdle
    /\ SchedIdle /\ FieldIdle /\ PosIdle /\ MapsIdle /\ ClIdle /\ ApsIdle /\ DebiasIdle
    /\ BinIdle /\ MixIdle
    /\ harr = <<>>
    /\ htab = <<>>
    /\ hobj = <<>>
    /\ hheld = [a \in Actors |-> 0]
    /\ herr = "none"
    /\ hop = [op |-> "none", actor |-> "none", arg |-> <<>>]

\* The iterator of the catalogue constructs the next page, CatalogPage(data);
\* the aggregations are done with the copies of the page before.
PageNew ==
    /\ Len(hobj) < MaxPageObjects
    /\ Len(harr) + 2 <= MaxArrays
    /\ \E data \in PageData :
          /\ hop' = [op |-> "new", actor |-> "driver", arg |-> data]
          /\ IF UpdatedSize([c \in Columns |-> Len(data[c])]) = -1
             THEN /\ herr' = "ValueError"
                  /\ UNCHANGED <<harr, htab, hobj, hheld>>
             ELSE /\ harr' = harr \o <<data.ra, data.w>>
                  /\ htab' = Append(htab, [ra |-> Len(harr) + 1, w |-> Len(harr) + 2])
                  /\ hobj' = Append(hobj, [data |-> Len(htab) + 1, size |-> Len(data.ra)])
                  /\ hheld' = [a \in Actors |-> IF a = "driver" THEN Len(hobj) + 1 ELSE 0]
                  /\ herr' = "none"
    /\ UNCHANGED nonHeapVars

\* maps.py line 794: fn(page.copy()) for an aggregation
PageFeed ==
    /\ Len(hobj) < MaxPageObjects
    /\ hheld["driver"] # 0
    /\ \E a \in Aggregations :
          /\ hheld[a] = 0
          /\ LET r == PageCopy(htab, hobj, hheld["driver"])
             IN  /\ htab' = r.tab
                 /\ hobj' = r.obj
                 /\ hheld' = [hheld EXCEPT ![a] = r.id]
                 /\ hop' = [op |-> "copy", actor |-> a, arg |-> hheld["driver"]]
    /\ herr' = "none"
    /\ UNCHANGED harr
    /\ UNCHANGED nonHeapVars

\* CatalogPage.delete(where) by an actor on the page it works on; a row
\* number beyond the rows raises IndexError in np.delete of the first column
PageDelete ==
    /\ Len(harr) + 2 <= MaxArrays
    /\ \E a \in Actors :
          /\ hheld[a] # 0
          /\ LET p == hheld[a]
                 t == hobj[p].data
             IN  \E where \in DeleteArgs(hobj[p].size) :
                  /\ hop' = [op |-> "delete", actor |-> a, arg |-> where]
                  /\ IF hobj[p].size + 1 \in where
                    THEN /\ herr' = "IndexError"
                         /\ UNCHANGED <<harr, htab, hobj>>
                    ELSE LET ra == Deleted(harr[htab[t].ra], where)
                             w == Deleted(harr[htab[t].w], where)
                         IN  /\ harr' = harr \o <<ra, w>>
                             /\ htab' = [htab EXCEPT ![t] =
                                            [ra |-> Len(harr) + 1, w |-> Len(harr) + 2]]
                             /\ hobj' = [hobj EXCEPT ![p].size =
                                            UpdatedSize([c \in Columns |->
                                                Len(harr'[htab'[t][c]])])]
                             /\ herr' = "none"
    /\ UNCHANGED hheld
    /\ UNCHANGED nonHeapVars

HeapNext == PageNew \/ PageFeed \/ PageDelete

SpecHeap == HeapInit /\ [][HeapNext]_vars

(***************************************************************************)
(* Claims about the pages (SpecHeap)                                       *)
(***************************************************************************)

\* C23: in every state of a CatalogPage, after its construction and after any
\* sequence of delete and copy operations, all its columns have the same
\* length and its size is that length; the construction of a page from
\* columns of unequal length raises ValueError and makes no page.
C23_ColumnsSameLength ==
    /\ [](\A p \in 1..Len(hobj) :
            \A c \in Columns : Len(ColumnsOf(harr, htab, hobj, p)[c]) = hobj[p].size)
    /\ [][(hop'.op = "new" /\ Len(hop'.arg.ra) # Len(hop'.arg.w))
             => (herr' = "ValueError" /\ hobj' = hobj)]_vars
    /\ [][(hop'.op = "new" /\ Len(hop'.arg.ra) = Len(hop'.arg.w))
             => /\ herr' = "none" /\ Len(hobj') = Len(hobj) + 1
                /\ ColumnsOf(harr', htab', hobj', Len(hobj')) = hop'.arg]_vars

\* a page of two rows was copied, and one row deleted from the copy, then one
\* from the page itself
C23_Witness ==
    /\ Len(hobj) = 2
    /\ hobj[1].size = 1 /\ hobj[2].size = 1
    /\ ColumnsOf(harr, htab, hobj, 1).ra = <<2>>
    /\ ColumnsOf(harr, htab, hobj, 2).ra = <<1>>
    /\ hop.op = "delete" /\ hop.actor = "driver"

\* C28: a deletion of rows by an aggregation on the page it was given changes
\* the rows, the size and the columns of no other page: not of the page of
\* the driver, not of the copy of another aggregation, whatever the order of
\* the copies and the deletions; and the next page of the catalogue has the
\* rows of its data.  A copy is a page of its own with the rows of the page.
C28_DeleteIsPrivate ==
    /\ [][hop'.op = "delete" =>
            \A p \in 1..Len(hobj) :
                p # hheld[hop'.actor] =>
                    /\ hobj'[p].size = hobj[p].size
                    /\ ColumnsOf(harr', htab', hobj', p) = ColumnsOf(harr, htab, hobj, p)]_vars
    /\ [][(hop'.op = "copy" /\ herr' = "none") =>
            /\ hheld'[hop'.actor] \notin {hheld[a] : a \in Actors}
            /\ ColumnsOf(harr', htab', hobj', hheld'[hop'.actor])
                  = ColumnsOf(harr, htab, hobj, hheld["driver"])
            /\ \A p \in 1..Len(hobj) :
                  ColumnsOf(harr', htab', hobj', p) = ColumnsOf(harr, htab, hobj, p)]_vars
    /\ [][(hop'.op = "new" /\ herr' = "none") =>
            ColumnsOf(harr', htab', hobj', hheld'["driver"]) = hop'.arg]_vars

\* both aggregations have a copy of a page with a row of weight zero; one has
\* deleted that row, the other and the driver still have both rows
C28_Witness ==
    /\ hheld["k1"] # 0 /\ hheld["k2"] # 0
    /\ hop.op = "delete" /\ hop.actor = "k1" /\ hop.arg = {1}
    /\ ColumnsOf(harr, htab, hobj, hheld["k1"]).w = <<1>>
    /\ ColumnsOf(harr, htab, hobj, hheld["k2"]).w = <<0, 1>>
    /\ ColumnsOf(harr, htab, hobj, hheld["driver"]).w = <<0, 1>>

(***************************************************************************)
(* Claim about the arrays and mappings of debias_cls (SpecDebias)          *)
(***************************************************************************)

\* C24: without the in-place mode debias_cls never changes the input mapping,
\* the values of the input spectrum or its metadata, and returns a new
\* mapping with a new array; with the in-place mode the mapping it returns is
\* the input mapping, and its array is the input array with the bias
\* subtracted.
C24_InPlaceOnlyOnRequest ==
    /\ ~din.inplace =>
          /\ dheap.cls = 1
          /\ dheap.arrays[1] = [val |-> ClBefore(din.len), md |-> din.md]
          /\ dcl = ClBefore(din.len)
    /\ dpc \in {"return", "done"} =>
          IF din.inplace
          THEN /\ dheap.outmap = "cls"
               /\ dheap.out = 1 /\ dheap.cls = 1
               /\ dheap.arrays[1].val = DebiasCl(ClBefore(din.len), din.arg, din.md).cl
               /\ dheap.arrays[1].md = din.md
               /\ dout = dheap.arrays[1].val /\ dcl = dout
          ELSE /\ dheap.outmap = "TocDict"
               /\ dheap.out # dheap.cls
               /\ dheap.arrays[dheap.out].val = DebiasCl(ClBefore(din.len), din.arg, din.md).cl
               /\ dout = dheap.arrays[dheap.out].val

\* both modes with a bias of the metadata subtracted from four modes
C24_Witness ==
    /\ dpc = "done" /\ din.len = 4 /\ din.arg = "None" /\ din.md.bias = {5}
    /\ dout # ClBefore(din.len)
    /\ \/ ~din.inplace /\ dheap.out = 2 /\ dheap.arrays[1].val = ClBefore(din.len)
       \/ din.inplace /\ dheap.out = 1 /\ dheap.arrays[1].val = dout

(***************************************************************************)
(* FitsCatalog (catalog/fits.py): the pages of a catalogue or of a view    *)
(***************************************************************************)

MaxFitsRows == 4
MaxFitsPageSize == 3

\* the catalogues: nrows rows in the table, and for a view (given) the rows
\* for which the expression of its selection is true
FitsCatalogs ==
    {c \in [nrows : 0..MaxFitsRows, page_size : 1..MaxFitsPageSize, given : BOOLEAN,
            selected : SUBSET (1..MaxFitsRows)] :
        /\ c.selected \subseteq 1..c.nrows
        /\ ~c.given => c.selected = 1..c.nrows}

\* FitsCatalog._size(selection) and CatalogView.size: the selection is ignored
FitsSize(c) == c.nrows

\* hdu[names][start:stop], start counted from zero: the row numbers read
FitsRead(c, start, stop) ==
    [n \in 1..(Min2(stop, c.nrows) - start) |-> start + n]

\* rows[rowfilter(rows, selection)] if a selection is given
FitsRows(c, rows) ==
    IF c.given THEN SelectSeq(rows, LAMBDA n : n \in c.selected) ELSE rows

FitsInit ==
    /\ KeyIdle
    /\ SchedIdle /\ FieldIdle /\ PosIdle /\ MapsIdle /\ ClIdle /\ ApsIdle /\ DebiasIdle
    /\ BinIdle /\ MixIdle /\ HeapIdle
    /\ tin \in FitsCatalogs
    /\ tpc = "iter"
    /\ tstart = 0
    /\ tpages = <<>>
    /\ tcache = <<>>

\* One iteration of the loop of _pages: the next page is yielded.
FitsPage ==
    /\ tpc = "iter"
    /\ tstart < tin.nrows
    /\ LET stop == tstart + tin.page_size
       IN  /\ tpages' = Append(tpages, FitsRows(tin, FitsRead(tin, tstart, stop)))
           /\ tcache' = <<tstart, stop>>
           /\ tstart' = stop
    /\ UNCHANGED <<tin, tpc>>
    /\ UNCHANGED nonFitsVars

\* range(0, nrows, page_size) is exhausted.
FitsEnd ==
    /\ tpc = "iter"
    /\ tstart >= tin.nrows
    /\ tpc' = "done"
    /\ UNCHANGED <<tin, tstart, tpages, tcache>>
    /\ UNCHANGED nonFitsVars

FitsNext == FitsPage \/ FitsEnd

SpecFits == FitsInit /\ [][FitsNext]_vars

(***************************************************************************)
(* Claim about the pages of a catalogue (SpecFits)                         *)
(***************************************************************************)

\* C25: the pages of a FitsCatalog, or of a view of it with a row selection,
\* have row counts that sum to the size the catalogue reports, and each page
\* has page_size rows, except that the last may have fewer.
C25_PagesSumToSize ==
    tpc = "done" =>
        /\ SumOver([n \in 1..Len(tpages) |-> Len(tpages[n])], 1..Len(tpages)) = FitsSize(tin)
        /\ \A n \in 1..Len(tpages) :
              /\ Len(tpages[n]) <= tin.page_size
              /\ n < Len(tpages) => Len(tpages[n]) = tin.page_size

(***************************************************************************)
(* _almkeys and _getalm (twopoint.py).  A name is the sequence of the      *)
(* parts that "_" separates: "G_E" is <<"G", "E">>, so that "_".join is    *)
(* the concatenation of parts and split("_") gives the parts back.         *)
(***************************************************************************)

KeyBins == {0, 1}

\* the entries of a collection: dims is the shape without its last axis
\* (<<>> for a one-dimensional array); P, G_E and G_B are what transform_maps
\* writes for a spin-0 field P and a spin-2 field G
KeyEntryKinds ==
    {[name |-> <<"P">>, dims |-> <<>>, spin |-> 0],
     [name |-> <<"G", "E">>, dims |-> <<>>, spin |-> 2],
     [name |-> <<"G", "B">>, dims |-> <<>>, spin |-> 2],
     [name |-> <<"G">>, dims |-> <<2>>, spin |-> 2],
     [name |-> <<"C">>, dims |-> <<2>>, spin |-> 0],
     [name |-> <<"D">>, dims |-> <<2, 2>>, spin |-> 2]}

KeyEntries ==
    {[name |-> e.name, bin |-> i, dims |-> e.dims, spin |-> e.spin] :
        e \in KeyEntryKinds, i \in KeyBins}

\* the collections: no key (name, bin) twice, which the kinds ensure
KeyCollections == SUBSET KeyEntries

\* str(j) for an index, and int(part) with "ValueError" for a part that is
\* no number
StrOf(j) == IF j = 0 THEN "0" ELSE "1"
IntOf(part) == IF part = "0" THEN 0 ELSE IF part = "1" THEN 1 ELSE -1

\* np.ndindex(*dims)
RECURSIVE NdIndex(_)
NdIndex(dims) ==
    IF dims = <<>> THEN {<<>>}
    ELSE {<<j>> \o rest : j \in 0..(dims[1] - 1), rest \in NdIndex(Tail(dims))}

\* _almkeys for one entry: the flattened keys with the index each came from
FlatKeys(e) ==
    IF e.dims = <<>> THEN {[name |-> e.name, bin |-> e.bin, from |-> [entry |-> e, j |-> <<>>]]}
    ELSE LET eb == e.dims[1] = 2 /\ e.spin # 0
         IN  {[name |-> e.name
                        \o <<IF eb THEN (IF j[1] = 0 THEN "E" ELSE "B") ELSE StrOf(j[1])>>
                        \o [n \in 1..(Len(j) - 1) |-> StrOf(j[n + 1])],
               bin |-> e.bin,
               from |-> [entry |-> e, j |-> j]] : j \in NdIndex(e.dims)}

\* _getalm: the component alm[j] of the entry of the first part of the name
GetAlm(coll, k, i) ==
    LET k0 == <<Head(k)>>
        parts == Tail(k)
        idx == [n \in 1..Len(parts) |->
                  IF n = 1 /\ parts[n] \in {"E", "B"}
                  THEN (IF parts[n] = "E" THEN 0 ELSE 1)
                  ELSE IntOf(parts[n])]
    IN  IF ~ \E e \in coll : e.name = k0 /\ e.bin = i
        THEN [err |-> "KeyError", entry |-> <<>>, j |-> <<>>]
        ELSE LET e == CHOOSE x \in coll : x.name = k0 /\ x.bin = i
             IN  IF \E n \in 1..Len(idx) : idx[n] = -1
                 THEN [err |-> "ValueError", entry |-> <<>>, j |-> <<>>]
                 ELSE IF Len(idx) > Len(e.dims) + 1
                           \/ \E n \in 1..Len(idx) : n <= Len(e.dims) /\ idx[n] >= e.dims[n]
                 THEN [err |-> "IndexError", entry |-> <<>>, j |-> <<>>]
                 ELSE [err |-> "none", entry |-> e, j |-> idx]

KeyInit ==
    /\ SchedIdle /\ FieldIdle /\ PosIdle /\ MapsIdle /\ ClIdle /\ ApsIdle /\ DebiasIdle
    /\ BinIdle /\ MixIdle /\ HeapIdle /\ FitsIdle
    /\ kin \in KeyCollections
    /\ kpc = "keys"
    /\ kqueue = UNION {FlatKeys(e) : e \in kin}
    /\ klook = {}

\* _getalm for one of the keys that _almkeys yields
KeyLookup ==
    /\ kpc = "keys"
    /\ kqueue # {}
    /\ LET key == CHOOSE x \in kqueue : TRUE
       IN  /\ klook' = klook \cup {[key |-> <<key.name, key.bin>>, from |-> key.from,
                                    got |-> GetAlm(kin, key.name, key.bin)]}
           /\ kqueue' = kqueue \ {key}
    /\ UNCHANGED <<kin, kpc>>
    /\ UNCHANGED nonKeyVars

\* every key was looked up
KeyDone ==
    /\ kpc = "keys"
    /\ kqueue = {}
    /\ kpc' = "done"
    /\ UNCHANGED <<kin, kqueue, klook>>
    /\ UNCHANGED nonKeyVars

KeyNext == KeyLookup \/ KeyDone

SpecKey == KeyInit /\ [][KeyNext]_vars

(***************************************************************************)
(* Claim about the flattened keys (SpecKey)                                *)
(***************************************************************************)

\* C27: every flattened key that _almkeys yields for a collection resolves
\* through _getalm to the component it was derived from, without an
\* exception, for one-dimensional and multi-component entries, the
\* one-dimensional entries k_E and k_B of transform_maps included.
C27_KeysResolve ==
    \A l \in klook :
        /\ l.got.err = "none"
        /\ l.got.entry = l.from.entry
        /\ l.got.j = l.from.j

(***************************************************************************)
(* Claims about the statistics of a page without rows (SpecField)          *)
(***************************************************************************)

\* the page loop finishes a page that retained no rows
EmptyPageEnds == fpc = "paging" /\ fpages' = fpages + 1 /\ pg.size = 0

StatsOf(a) == [ngal |-> a.ngal, wmean |-> a.wmean, var |-> a.var]
StatsDefined(a) == ~IsNaN(a.wmean) /\ ~IsNaN(a.var)

\* C30: in ScalarField / ComplexField and in the mappers of ScalarMap /
\* ComplexMap, a page that retains no rows after its zero-weight rows were
\* dropped, the first page of the catalogue included, leaves ngal, wmean and
\* var as they were, and they stay defined (nothing is divided by a row
\* count of zero).
C30_EmptyPageKeepsStatistics ==
    [][EmptyPageEnds =>
         /\ StatsOf(acc') = StatsOf(acc) /\ StatsDefined(acc')
         /\ macc' = macc /\ StatsDefined(macc')]_vars


==============================================================================
